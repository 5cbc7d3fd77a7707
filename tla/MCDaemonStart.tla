---------------------------- MODULE MCDaemonStart ----------------------------
(* Three runs for one device, the last with the number typed as 01.        *)
EXTENDS DaemonStart, TLC

CONSTANTS a, b, c

MCDeviceOf == a :> 1 @@ b :> 1 @@ c :> 1
=============================================================================
