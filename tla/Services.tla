------------------------------- MODULE Services -------------------------------
(***************************************************************************)
(* Services of the bridge side by side: an execution of a task, the        *)
(* WebSocket bridge, the plugin manager, the memory cache, a provider      *)
(* adapter and the learning module. They share no state; a module that     *)
(* checks or proves something of them extends this one.                    *)
(***************************************************************************)
EXTENDS Integers, Sequences, FiniteSets

CONSTANTS
  Executions, RetryOnFailure,
  Clients, Tasks, MaxRequests,
  Callers, MaxOperations,
  Keys, Tags, Ttls, MaxSets, CacheTime, Operations,
  AdapterCalls, BreakerThreshold, BreakerReset, HalfOpenMaxAttempts, MaxRetries, AdapterTime,
  Feedback, Keep, Exporters, MaxSaves, MaxFailures, MaxCrashes, Nothing, Broken

VARIABLES
  tStatus, tResults, tExec,
  wConnected, wGone, wSubscriptions, wRequest, wClosed,
  pLoaded, pEnabled, pFiles, pOp, pOperations, pRaced,
  mNow, mCache, mTagIndex, mTimers, mOp, mSets,
  aNow, aBreaker, aRetryCount, aCall, aFails, aStreak,
  lArrays, lHistory, lTimer, lLoading, lSave, lOriginal, lFile, lBackups, lExported,
  lSaves, lFailures, lCrashes, lRecorded, lExposed, lSaved, lOverlapped

Task == INSTANCE TaskLifecycle WITH
  status <- tStatus, results <- tResults, exec <- tExec

Bridge == INSTANCE WebSocketBridge WITH
  connected <- wConnected, gone <- wGone, subscriptions <- wSubscriptions,
  request <- wRequest, closed <- wClosed

Plugin == INSTANCE PluginManager WITH
  loaded <- pLoaded, enabled <- pEnabled, files <- pFiles, op <- pOp,
  operations <- pOperations, raced <- pRaced

Cache == INSTANCE MemoryCache WITH
  MaxTime <- CacheTime,
  now <- mNow, cache <- mCache, tagIndex <- mTagIndex, timers <- mTimers, op <- mOp, sets <- mSets

Adapter == INSTANCE ProviderAdapter WITH
  Calls <- AdapterCalls, FailureThreshold <- BreakerThreshold, ResetTimeout <- BreakerReset,
  MaxTime <- AdapterTime,
  now <- aNow, breaker <- aBreaker, retryCount <- aRetryCount, call <- aCall, fails <- aFails,
  streak <- aStreak

Learning == INSTANCE LearningModule WITH
  arrays <- lArrays, history <- lHistory, timer <- lTimer, loading <- lLoading, save <- lSave,
  original <- lOriginal, file <- lFile, backups <- lBackups, exported <- lExported,
  saves <- lSaves, failures <- lFailures, crashes <- lCrashes, recorded <- lRecorded,
  exposed <- lExposed, saved <- lSaved, overlapped <- lOverlapped

-----------------------------------------------------------------------------
(* The property of each service; it is explained in its module. *)

(* Task.complete, ExecuteTaskUseCase.execute: a success is stored before   *)
(* it shows, and is never contradicted.                                    *)
SuccessIsFinal == Task!SuccessIsFinal

(* WebSocketBridge.handleDisconnect and handleTaskExecute: only connected  *)
(* clients are subscribed to a task.                                       *)
SubscribersConnected == Bridge!SubscribersConnected

(* PluginManager: an enabled plugin is loaded, so callHook finds it. *)
EnabledIsLoaded == Plugin!EnabledIsLoaded

(* CacheService.invalidateByTags removes all that carried the tag. *)
InvalidationComplete == Cache!InvalidationComplete

(* OpenAIAdapter.execute: the breaker, not the retry count, ends the       *)
(* retries of a call.                                                      *)
RetriesBounded == Adapter!RetriesBounded

(* LearningModule, LearningPersistence.save: feedback is kept in memory,   *)
(* and what was saved on disk.                                             *)
FeedbackKept == Learning!FeedbackKept

=============================================================================
