---------------------------- MODULE NotifyProofs ----------------------------
(***************************************************************************)
(* The flush channel, for any number of clients: although the channel has  *)
(* one place and every send is a try_send whose failure is ignored, no     *)
(* wake() is lost and a shutdown never has to wait for the interval timer. *)
(* WakeNotLost and ShutdownPrompt are not inductive: the first needs that  *)
(* nothing is pending for a thread that does not run, the second that the  *)
(* stop flag is set before the signal is sent, so that a thread that was   *)
(* inside a cycle when the signal was dropped leaves instead of waiting.   *)
(***************************************************************************)
EXTENDS EngineProperties, TLAPS

\* Nothing is pending and there is no thread before the first start().
LEMMA NotifyInit == Init => NotifyInv
BY DEF Init, FlusherInit, NotifyInv, WakeNotLost, ShutdownPrompt, Alive

\* The variables NotifyInv is about.
notifyVars == <<chan, stop, fl_pc, owed, life>>

\* A wake() leaves a signal behind for a thread that runs.
LEMMA WakeKeeps ==
    ASSUME NotifyInv, wake, UNCHANGED <<fl_pc, life>>
    PROVE  NotifyInv'
BY DEF NotifyInv, WakeNotLost, ShutdownPrompt, Alive, wake, try_send

\* Every step keeps NotifyInv; the steps of clients that do not wake the
\* flusher do not touch its variables.
LEMMA NotifyStep == NotifyInv /\ [Next]_vars => NotifyInv'
<1> SUFFICES ASSUME NotifyInv, [Next]_vars PROVE NotifyInv'
    OBVIOUS
<1> USE DEF NotifyInv, WakeNotLost, ShutdownPrompt, Alive
<1>1. ASSUME NEW c \in Clients, Request(c) PROVE UNCHANGED notifyVars
    BY <1>1 DEF Request, Reject, ReadLookup, WriteLookup, notifyVars, flushVars, engineVars
<1>2. ASSUME NEW c \in Clients, EvictWake(c) \/ WakeFlusher(c) PROVE NotifyInv'
    BY <1>2, WakeKeeps DEF EvictWake, WakeFlusher, threadVars, engineVars
<1>3. ASSUME NEW c \in Clients, ClientStep(c), ~EvictWake(c), ~WakeFlusher(c)
      PROVE  UNCHANGED notifyVars
    BY <1>3 DEF ClientStep, Allocate, Select, SelectRest, EvictWrite, EvictRemove,
        EvictFree, EvictFreeRest, Realloc, ReadFill, CopyIn, Insert, CopyOut, MarkDirty,
        Stats, notifyVars, flushVars, engineVars
<1>4. CASE Start
    BY <1>4 DEF Start, Exclusive, engineVars
<1>5. CASE Stop \/ Drop
    BY <1>5 DEF Stop, Drop, Exclusive, flushVars
<1>6. CASE ShutdownStore
    BY <1>6 DEF ShutdownStore, threadVars
<1>7. CASE ShutdownSend
    BY <1>7 DEF ShutdownSend, try_send, threadVars
<1>8. CASE ShutdownJoin
    BY <1>8 DEF ShutdownJoin
<1>9. ASSUME FlusherThread PROVE NotifyInv'
  <2>1. UNCHANGED life
      BY <1>9 DEF FlusherThread, engineVars
  <2>2. CASE FlReceive \/ FlTimeout \/ FlSnapshot
      BY <2>1, <2>2 DEF FlReceive, FlTimeout, FlSnapshot
  <2>3. CASE FlWrite \/ FlClean \/ FlSync
      BY <2>1, <2>3 DEF FlWrite, FlClean, FlSync, FlLoop
  <2>4. CASE FlCheck
      BY <2>1, <2>4 DEF FlCheck, FlCheckLeaves, FlCheckRest
  <2> QED BY <1>9, <2>2, <2>3, <2>4 DEF FlusherThread, FlNext, FlStep
<1>10. CASE UNCHANGED notifyVars
    BY <1>10 DEF notifyVars
<1>11. CASE UNCHANGED vars
    BY <1>10, <1>11 DEF vars, flushVars, engineVars, notifyVars
<1> QED
    BY <1>1, <1>2, <1>3, <1>4, <1>5, <1>6, <1>7, <1>8, <1>9, <1>10, <1>11
    DEF Next, Shutdown

\* A wake() to a running flusher is honoured by a flush cycle that begins
\* after it, whoever else wakes or stops the flusher meanwhile.
THEOREM WakeIsNeverLost == Spec => []WakeNotLost
<1>1. NotifyInv => WakeNotLost
    BY DEF NotifyInv
<1> QED BY <1>1, NotifyInit, NotifyStep, PTL DEF Spec

\* After shutdown() has tried to send its signal the flusher never waits for
\* the interval timer, also when the Shutdown was dropped.
THEOREM ShutdownNeedsNoTimer == Spec => []ShutdownPrompt
<1>1. NotifyInv => ShutdownPrompt
    BY DEF NotifyInv
<1> QED BY <1>1, NotifyInit, NotifyStep, PTL DEF Spec
=============================================================================
