------------------------------ MODULE MCServices ------------------------------
(***************************************************************************)
(* The services of the bridge for TLC. One of them runs in each behaviour: *)
(* they share no state, and "which" names the one that runs.               *)
(***************************************************************************)
EXTENDS RetryManager, Services, TLC

VARIABLE which

retry == vars
task == <<tStatus, tResults, tExec>>
bridge == <<wConnected, wGone, wSubscriptions, wRequest, wClosed>>
plugins == <<pLoaded, pEnabled, pFiles, pOp, pOperations, pRaced>>
caching == <<mNow, mCache, mTagIndex, mTimers, mOp, mSets>>
adapter == <<aNow, aBreaker, aRetryCount, aCall, aFails, aStreak>>
learning == <<lArrays, lHistory, lTimer, lLoading, lSave, lOriginal, lFile, lBackups, lExported,
              lSaves, lFailures, lCrashes, lRecorded, lExposed, lSaved, lOverlapped>>

MCInit ==
  /\ which \in {"retry", "adapter", "task", "learning", "bridge", "plugins", "cache"}
  /\ Init /\ Adapter!Init /\ Task!Init /\ Learning!Init /\ Bridge!Init /\ Plugin!Init /\ Cache!Init

MCNext ==
  /\ UNCHANGED which
  /\ \/ /\ which = "retry" /\ Next
        /\ UNCHANGED <<adapter, task, learning, bridge, plugins, caching>>
     \/ /\ which = "adapter" /\ Adapter!Next
        /\ UNCHANGED <<retry, task, learning, bridge, plugins, caching>>
     \/ /\ which = "task" /\ Task!Next
        /\ UNCHANGED <<retry, adapter, learning, bridge, plugins, caching>>
     \/ /\ which = "learning" /\ Learning!Next
        /\ UNCHANGED <<retry, adapter, task, bridge, plugins, caching>>
     \/ /\ which = "bridge" /\ Bridge!Next
        /\ UNCHANGED <<retry, adapter, task, learning, plugins, caching>>
     \/ /\ which = "plugins" /\ Plugin!Next
        /\ UNCHANGED <<retry, adapter, task, learning, bridge, caching>>
     \/ /\ which = "cache" /\ Cache!Next
        /\ UNCHANGED <<retry, adapter, task, learning, bridge, plugins>>

MCVars == <<which, retry, adapter, task, learning, bridge, plugins, caching>>

MCSpec == MCInit /\ [][MCNext]_MCVars /\ (which = "retry" => Fairness)

=============================================================================
