------------------------------- MODULE MCParts -------------------------------
(* Six parts that share nothing, side by side; each behaviour follows one of *)
(* them: the message queue called by one caller, the block allocator, the    *)
(* timers of lwIP, the WiFi module's line, the start, the motion commands.   *)
EXTENDS InterQueue, MyMalloc, SysTimeouts, WifiAt, Boot, DriveCommands, TLC

VARIABLE part
all == <<part, vars, memVars, timeoutVars, wifiVars, bootVars, driveVars>>

CONSTANTS m1, m2
MCMsgs == {m1, m2}
MCDelay == [h \in Handlers |-> CASE h = "tcp" -> 11 [] h = "ip" -> 15 [] OTHER -> 33]
MCProtocols == <<"ip", "arp">>

(* Angle2Position (kinematics.c) at -16, 0, 5.6 and 16 degrees.              *)
MCLinkage ==
  (-275 :> -323024) @@ (0 :> -42) @@ (98 :> 129861) @@ (275 :> 369206)

(* Straight on, reverse in a turn, the ends of both ranges, a speed that is  *)
(* cut to 1 m/s, a turn no steering angle gives, and speed 0.                *)
Cmd(m, a, v) == [auto |-> m, a |-> a, v |-> v]
MCWords ==
  {Cmd(FALSE, 0, 340), Cmd(FALSE, 12, -340), Cmd(FALSE, -32768, 32767),
   Cmd(TRUE, -1770, -2000), Cmd(TRUE, 6000, 100), Cmd(TRUE, -5000, 0)}

PartsInit ==
  /\ part \in {"queue", "malloc", "timeouts", "wifi", "boot", "drive"}
  /\ Init /\ MemInit /\ TimeoutsInit /\ WifiInit /\ BootInit /\ DriveInit

Only(p, others) == part = p /\ UNCHANGED <<part, others>>
PartsNext ==
  \/ Only("queue", <<memVars, timeoutVars, wifiVars, bootVars, driveVars>>) /\ Next
  \/ Only("malloc", <<vars, timeoutVars, wifiVars, bootVars, driveVars>>) /\ MemNext
  \/ Only("timeouts", <<vars, memVars, wifiVars, bootVars, driveVars>>) /\ TimeoutsNext
  \/ Only("wifi", <<vars, memVars, timeoutVars, bootVars, driveVars>>) /\ WifiNext
  \/ Only("boot", <<vars, memVars, timeoutVars, wifiVars, driveVars>>) /\ BootNext
  \/ Only("drive", <<vars, memVars, timeoutVars, wifiVars, bootVars>>) /\ DriveNext
PartsSpec == PartsInit /\ [][PartsNext]_all

(* Nothing is explored beyond a search in the block map that another         *)
(* mymalloc preempted, and beyond a byte stored outside USART3's buffer.     *)
InScope == Unclashed /\ ~damaged

(* The part that runs keeps its types: no index, count, time, byte or speed  *)
(* leaves its range, and no pool of control blocks is overdrawn.             *)
PartsTypeOK ==
  /\ part = "queue" => TypeOK
  /\ part = "malloc" => MemTypeOK
  /\ part = "timeouts" => TimeoutsTypeOK
  /\ part = "wifi" => WifiTypeOK
  /\ part = "boot" => BootTypeOK
  /\ part = "drive" => DriveTypeOK
=============================================================================
