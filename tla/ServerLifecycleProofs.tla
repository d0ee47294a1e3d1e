----------------------- MODULE ServerLifecycleProofs -----------------------
(***************************************************************************)
(* Proofs about ServerLifecycle, for any number of signals.                *)
(***************************************************************************)
EXTENDS ServerLifecycle, TLAPS

Inside == {"setup", "starting", "check", "wait", "return"}

\* The pointer is set while the server lives, and the loop does not find
\* running_ FALSE unless it was asked to stop.
LifeInv ==
  /\ LifeTypeOK
  /\ main \in Inside \cup {"publish"} => server = "alive"
  /\ g_server <=> (main \in Inside \cup {"release", "exit", "exited"})
  /\ Serving /\ ~running_ => asked
  /\ main \in {"return", "release", "exit", "exited"} => asked \/ failed

LEMMA LifeInitInv == Init => LifeInv
<1> SUFFICES ASSUME Init PROVE LifeInv
  OBVIOUS
<1>1. signals \in 0..MaxSignals
  BY SignalsAssumption DEF Init
<1>2. LifeTypeOK
  BY <1>1, Zenon DEF Init, LifeTypeOK
<1> QED
  BY <1>2 DEF Init, LifeInv, Inside, Serving

LEMMA SignalInv ==
  ASSUME LifeInv, Signal
  PROVE  LifeInv'
<1> USE DEF LifeInv, LifeTypeOK, Inside, Serving, Ended
<1>1. signals' \in 0..MaxSignals
  BY SignalsAssumption DEF Signal
<1>2. CASE main = "install"
  BY <1>1, <1>2 DEF Signal
<1>3. CASE main # "install" /\ g_server
  <2>1. main' = main /\ running_' = FALSE /\ UNCHANGED <<expiry, store, server, g_server, failed>>
    BY <1>3 DEF Signal
  <2>2. asked' = (asked \/ server = "alive")
    BY <1>3 DEF Signal
  <2>3. main \in Inside \cup {"release", "exit", "exited"}
    BY <1>3
  <2>4. Serving => asked'
    BY <2>2
  <2>5. asked => asked'
    BY <2>2
  <2>6. asked' \in BOOLEAN
    BY <2>2
  <2>7. LifeTypeOK'
    BY <1>1, <2>1, <2>6
  <2> QED
    BY <1>3, <2>1, <2>4, <2>5, <2>7
<1>4. CASE main # "install" /\ ~g_server
  BY <1>1, <1>4 DEF Signal
<1> QED
  BY <1>2, <1>3, <1>4

LEMMA LifeStepInv == LifeInv /\ [Next]_lifeVars => LifeInv'
<1> SUFFICES ASSUME LifeInv, [Next]_lifeVars PROVE LifeInv'
  OBVIOUS
<1> USE DEF LifeInv, LifeTypeOK, Inside, Serving, Goto
<1>1. CASE InstallHandlers
  BY <1>1 DEF InstallHandlers
<1>2. CASE StartThreads
  BY <1>2 DEF StartThreads
<1>3. CASE BadPort
  BY <1>3 DEF BadPort
<1>4. CASE Construct
  BY <1>4 DEF Construct
<1>5. CASE Publish
  BY <1>5 DEF Publish
<1>6. CASE Setup
  BY <1>6 DEF Setup
<1>7. CASE RunThrows
  BY <1>7 DEF RunThrows
<1>8. CASE Starting
  BY <1>8 DEF Starting
<1>9. CASE Check
  BY <1>9 DEF Check
<1>10. CASE Wait
  BY <1>10 DEF Wait
<1>11. CASE WaitFails
  BY <1>11 DEF WaitFails
<1>12. CASE DestroyServer
  BY <1>12 DEF DestroyServer
<1>13. CASE ReleaseStore
  BY <1>13 DEF ReleaseStore
<1>14. CASE Exit
  BY <1>14 DEF Exit
<1>15. CASE Wake \/ Swept
  BY <1>15 DEF Wake, Swept
<1>16. CASE Signal
  BY <1>16, SignalInv
<1>17. CASE Rest \/ UNCHANGED lifeVars
  BY <1>17 DEF Rest, lifeVars
<1> QED
  BY <1>1, <1>2, <1>3, <1>4, <1>5, <1>6, <1>7, <1>8, <1>9, <1>10, <1>11, <1>12,
     <1>13, <1>14, <1>15, <1>16, <1>17 DEF Next, Main, Failure

THEOREM LifeInvariance == Spec => []LifeInv
BY LifeInitInv, LifeStepInv, PTL DEF Spec

\* The server's loop ends only when it was asked to, or when something failed.
THEOREM ReturnsOnlyWhenStopped == Spec => []ReturnsOnlyIfStopped
<1>1. LifeInv => ReturnsOnlyIfStopped
  BY DEF LifeInv, ReturnsOnlyIfStopped
<1> QED
  BY <1>1, LifeInvariance, PTL
=============================================================================
