-------------------------------- MODULE MCLive --------------------------------
(* What must happen in the end: handoffs killed at any step, with one operation *)
(* at work and an owner who sends commands meanwhile; or the operations of a    *)
(* mission after restarts that interrupt recovery. One of the two moves in a    *)
(* behaviour, under its own fairness.                                           *)
EXTENDS MCEpochHandoff

CONSTANTS commit, caller, k1, k2, k3, k4

VARIABLES moving, life, keys, bound, jversion, running, jpc, seen, effects, mode, pass,
          recovered, restarts

J == INSTANCE OperationJournal WITH
        Ops <- {commit}, Retryable <- {commit}, VerifyOnly <- {}, Callers <- {caller},
        About <- [c \in {caller} |-> commit], Returning <- {},
        RecoveryKeys <- {k1, k2, k3, k4}, MaxVersion <- 1, MaxRestarts <- 2, MaxRecords <- 2,
        version <- jversion, pc <- jpc

jvars == <<life, keys, bound, jversion, running, jpc, seen, effects, mode, pass, recovered,
           restarts>>

LiveInit == HInit /\ J!Init /\ moving \in {"handoff", "journal"}
LiveNext ==
    /\ \/ moving = "handoff" /\ HNext /\ UNCHANGED jvars
       \/ moving = "journal" /\ J!Next /\ UNCHANGED hvars
    /\ UNCHANGED moving

\* The fairness of EpochHandoff and of OperationJournal, for the one that moves:
\* what does not move has nothing to be fair to.
all == <<hvars, jvars, moving>>
OfHandoff(A) == moving = "handoff" /\ A /\ UNCHANGED <<jvars, moving>>
OfJournal(A) == moving = "journal" /\ A /\ UNCHANGED <<hvars, moving>>
Undisturbed(A) == A /\ UNCHANGED <<request, step>>
LiveSpec ==
    /\ LiveInit /\ [][LiveNext]_all
    /\ \A r \in Runners :
          /\ WF_all(OfHandoff(Undisturbed(Begin(r) \/ Work(r) \/ Finish(r))))
          /\ WF_all(OfHandoff(Undisturbed(Retries(r))))
    /\ \A c \in Commands : WF_all(OfHandoff(Undisturbed(Check(c) \/ Transition(c) \/ Refuse(c))))
    /\ \A h \in Handoffs : WF_all(OfHandoff(Prepare(h)))
    /\ \A x \in Activities : WF_all(OfHandoff(SeeBoundary(x) \/ SeeScope(x) \/ Activate(x)
                                              \/ SendResume(x) \/ Record(x)))
    /\ SF_all(OfJournal(\E k \in {k1, k2, k3, k4}, sound \in BOOLEAN :
                            J!NewKey(k) /\ J!BeginRecovery(k, sound)))
    /\ WF_all(OfJournal(J!RecoverOp(commit)))
    /\ WF_all(OfJournal(J!FinishRecovery))

\* After a restart every operation that was under way is decided, or the mission
\* goes on (OperationJournal, reconstruct_mission of local_recovery.py).
EveryOperationDecided == J!EveryOperationDecided
=============================================================================
