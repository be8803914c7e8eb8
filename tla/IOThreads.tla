------------------------------ MODULE IOThreads ------------------------------
(***************************************************************************)
(* The threaded I/O of Redis (iothread.c and the paths of networking.c it  *)
(* uses). A client lives in the event loop of an I/O thread, which reads   *)
(* its query and writes its replies. With a complete command, or to be     *)
(* freed, it is handed to the main thread through lists and notifiers and  *)
(* handed back afterwards; the main thread may pause an I/O thread to take *)
(* a client away. Each action is what one thread does between two points   *)
(* at which the other threads can see a difference.                        *)
(***************************************************************************)
EXTENDS Integers, Sequences, FiniteSets, SequencesExt

CONSTANTS
  Clients,
  Threads,        \* the I/O threads, positive numbers; the main thread is 0
  Nobody,
  Scenarios       \* bounds on what is sent and on what goes wrong

VARIABLES
  cl,         \* the clients
  list,       \* the lists of clients of each I/O thread
  wake,       \* the notifiers that have been triggered, <<reader, thread>>
  paused,     \* IOThread.paused
  io,         \* where each I/O thread is, and the events it still has to handle
  main,       \* where the main thread is
  clientsNum, \* io_threads_clients_num
  budget

vars == <<cl, list, wake, paused, io, main, clientsNum, budget>>

Main == 0

(* The lists a client passes through: of the I/O thread (pending_clients,  *)
(* processing_clients, clients, pending_clients_to_main_thread), and of    *)
(* the main thread (mainThreadPendingClients, mainThreadProcessingClients, *)
(* mainThreadPendingClientsToIOThreads).                                   *)
Lists == {"pending", "processing", "clients", "toMain", "mainPending", "mainProcessing", "toIO"}

NewClient ==
  [state |-> "new", tid |-> Main, running |-> Main, bound |-> Nobody, enabled |-> FALSE,
   command |-> FALSE, error |-> FALSE, closing |-> FALSE, asap |-> FALSE, reply |-> FALSE,
   last |-> FALSE, writer |-> FALSE, queued |-> FALSE, special |-> FALSE, input |-> 0]

Loop == [at |-> "loop", thread |-> Nobody, client |-> Nobody, then |-> "none"]

Spend(what) == budget[what] > 0 /\ budget' = [budget EXCEPT ![what] = @ - 1]

Without(l, t, name, c) == [l EXCEPT ![t][name] = SelectSeq(@, LAMBDA d : d # c)]

Joined(l, t, from, to) == [l EXCEPT ![t][to] = @ \o l[t][from], ![t][from] = <<>>]

-----------------------------------------------------------------------------
(* What a thread does to a client it owns; r has the fields cl and list. *)

Unbound(k) == [k EXCEPT !.bound = Nobody, !.writer = FALSE]

EnqueuePendingClientsToMainThread(r, c, unbind) ==
  LET k == IF unbind THEN Unbound(r.cl[c]) ELSE r.cl[c]
      t == k.tid
  IN  IF c \in Range(r.list[t].clients)
      THEN [cl |-> [r.cl EXCEPT ![c] = [k EXCEPT !.enabled = FALSE]],
            list |-> [Without(r.list, t, "clients", c) EXCEPT ![t].toMain = Append(@, c)]]
      ELSE [r EXCEPT !.cl[c] = k]

(* freeClientAsync for a client that runs in an I/O thread. *)
CloseInThread(r, c) ==
  EnqueuePendingClientsToMainThread([r EXCEPT !.cl[c].closing = TRUE], c, TRUE)

(* freeClientAsync for a client the main thread runs: the flag is its      *)
(* place in clients_to_close.                                              *)
CloseInMain(r, c) == [r EXCEPT !.cl[c].asap = TRUE]

Closed(r, c) == IF r.cl[c].running # Main THEN CloseInThread(r, c) ELSE CloseInMain(r, c)

(* writeToClient: the socket takes all of the reply, or a part of it, or   *)
(* the write fails.                                                        *)
Writes(r, c) ==
  LET sent == [r EXCEPT !.cl[c].reply = FALSE, !.cl[c].writer = FALSE]
  IN  IF ~r.cl[c].enabled THEN {<<r, "none">>}
      ELSE {<<IF r.cl[c].last THEN Closed(sent, c) ELSE sent, "none">>,
            <<[r EXCEPT !.cl[c].writer = TRUE], "partial">>,
            <<Closed(r, c), "broken">>}

Here == [cl |-> cl, list |-> list]

Become(r) == cl' = r.cl /\ list' = r.list

MayHappen(what) == IF what = "none" THEN UNCHANGED budget ELSE Spend(what)

-----------------------------------------------------------------------------
(* An I/O thread. Its event loop sleeps until an event fires, handles the  *)
(* events that have fired, and calls IOThreadBeforeSleep.                  *)

Fired(t) ==
  {c \in Clients : cl[c].bound = t /\ (cl[c].input > 0 \/ cl[c].writer)}
    \cup (IF <<"io", t>> \in wake THEN {Nobody} ELSE {})

Poll(t) ==
  /\ io[t].at = "poll" /\ Fired(t) # {}
  /\ io' = [io EXCEPT ![t] = [at |-> "events", fired |-> Fired(t)]]
  /\ UNCHANGED <<cl, list, wake, paused, main, clientsNum, budget>>

Handled(t, e) == io' = [io EXCEPT ![t].fired = @ \ {e}]

(* handleClientsFromMainThread up to its loop. *)
HandleClientsFromMainThread(t) ==
  /\ io[t].at = "events" /\ list[t].processing = <<>> /\ Nobody \in io[t].fired
  /\ Handled(t, Nobody)
  /\ wake' = wake \ {<<"io", t>>}
  /\ list' = Joined(list, t, "pending", "processing")
  /\ UNCHANGED <<cl, paused, main, clientsNum, budget>>

(* Mutant: the connection is not put back into an event loop. *)
Rebound_Never(k, t) == k

Rebound(k, t) == IF k.bound = Nobody THEN [k EXCEPT !.bound = t] ELSE k

(* One turn of the loop of handleClientsFromMainThread. *)
TakeClient(t) ==
  /\ io[t].at = "events" /\ list[t].processing # <<>>
  /\ LET c == Head(list[t].processing)
         r == [cl |-> cl, list |-> [list EXCEPT ![t].processing = Tail(@),
                                                ![t].clients = Append(@, c)]]
         k == Rebound([cl[c] EXCEPT !.enabled = TRUE, !.command = FALSE], t)
     IN  IF cl[c].closing
         THEN Become(EnqueuePendingClientsToMainThread(r, c, TRUE)) /\ UNCHANGED budget
         ELSE IF ~cl[c].reply THEN Become([r EXCEPT !.cl[c] = k]) /\ UNCHANGED budget
         ELSE \E w \in Writes([r EXCEPT !.cl[c] = k], c) :
                Become(w[1]) /\ MayHappen(w[2])
  /\ UNCHANGED <<wake, paused, io, main, clientsNum>>

(* readQueryFromClient in an I/O thread: nothing while the main thread has *)
(* the client; else a complete command, a protocol error, or the end of    *)
(* the connection.                                                         *)
ReadQuery(t, c) ==
  /\ io[t].at = "events" /\ list[t].processing = <<>>
  /\ c \in io[t].fired
  /\ Handled(t, c)
  /\ IF cl[c].bound = t /\ cl[c].enabled /\ cl[c].input > 0
     THEN LET r == [Here EXCEPT !.cl[c].input = @ - 1, !.cl[c].error = FALSE]
          IN  \/ /\ Become(EnqueuePendingClientsToMainThread(
                             [r EXCEPT !.cl[c].command = TRUE], c, FALSE))
                 /\ UNCHANGED budget
              \/ /\ Spend("error")
                 /\ Become(EnqueuePendingClientsToMainThread(
                             [r EXCEPT !.cl[c].error = TRUE], c, FALSE))
              \/ Spend("hangup") /\ Become(CloseInThread([r EXCEPT !.cl[c].error = TRUE], c))
     ELSE IF cl[c].bound = t /\ cl[c].writer
     THEN \E w \in Writes(Here, c) : Become(w[1]) /\ MayHappen(w[2])
     ELSE UNCHANGED <<cl, list, budget>>
  /\ UNCHANGED <<wake, paused, main, clientsNum>>

(* IOThreadBeforeSleep: pause if asked to, else pass on what is pending. *)
SendToMain(t) ==
  /\ list' = Joined(list, t, "toMain", "mainPending")
  /\ wake' = IF list[t].toMain = <<>> THEN wake ELSE wake \cup {<<"main", t>>}
  /\ io' = [io EXCEPT ![t].at = "poll"]

BeforeSleep(t) ==
  /\ io[t].at = "events" /\ io[t].fired = {} /\ list[t].processing = <<>>
  /\ IF paused[t] = "pausing"
     THEN /\ paused' = [paused EXCEPT ![t] = "paused"]
          /\ io' = [io EXCEPT ![t].at = "paused"]
          /\ UNCHANGED <<list, wake>>
     ELSE SendToMain(t) /\ UNCHANGED paused
  /\ UNCHANGED <<cl, main, clientsNum, budget>>

Resume(t) ==
  /\ io[t].at = "paused" /\ paused[t] = "resuming"
  /\ paused' = [paused EXCEPT ![t] = "unpaused"]
  /\ SendToMain(t)
  /\ UNCHANGED <<cl, main, clientsNum, budget>>

IOThread(t) ==
  \/ Poll(t) \/ HandleClientsFromMainThread(t) \/ TakeClient(t)
  \/ \E c \in Clients : ReadQuery(t, c)
  \/ BeforeSleep(t) \/ Resume(t)

-----------------------------------------------------------------------------
(* The main thread. *)

Awake == main.at \in {"loop", "process"}

Back == [main EXCEPT !.at = IF main.thread = Nobody THEN "loop" ELSE "process",
                     !.client = Nobody, !.then = "none"]

Goes(r) == Become(r) /\ main' = Back /\ UNCHANGED <<wake, paused>>

(* pauseIOThread(c->tid), to do something to c. *)
Pause(r, c, then) ==
  /\ Become(r)
  /\ main' = [main EXCEPT !.at = "pausing", !.client = c, !.then = then]
  /\ paused' = [paused EXCEPT ![r.cl[c].tid] = "pausing"]
  /\ wake' = wake \cup {<<"io", r.cl[c].tid>>}

Freed(r, c) == [r EXCEPT !.cl[c] = [NewClient EXCEPT !.state = "freed"]]

Count(from, to) ==
  clientsNum' = [t \in Threads \cup {Main} |->
                   clientsNum[t] - (IF t = from THEN 1 ELSE 0) + (IF t = to THEN 1 ELSE 0)]

(* freeClient. *)
FreeClient(r, c) ==
  LET k == r.cl[c]
  IN  IF k.running # Main THEN Pause(r, c, "fetch") /\ UNCHANGED clientsNum
      ELSE IF k.tid # Main /\ k.bound # Nobody THEN Pause(r, c, "free") /\ UNCHANGED clientsNum
      ELSE Goes(Freed(r, c)) /\ Count(k.tid, Nobody)

(* Mutant: the list of clients on their way back is not searched. *)
Fetched_Forgets(r, c) ==
  LET t == r.cl[c].tid
  IN  [cl |-> [r.cl EXCEPT ![c] = [Unbound(@) EXCEPT !.running = Main]],
       list |-> [r.list EXCEPT ![t] = [name \in Lists |->
                   IF name = "toIO" THEN @[name] ELSE SelectSeq(@[name], LAMBDA d : d # c)]]]

(* fetchClientFromIOThread while the thread is paused: processing_clients  *)
(* is not searched.                                                        *)
Fetched(r, c) ==
  LET t == r.cl[c].tid
  IN  [cl |-> [r.cl EXCEPT ![c] = [Unbound(@) EXCEPT !.running = Main]],
       list |-> [r.list EXCEPT ![t] = [name \in Lists |->
                   IF name = "processing" THEN @[name] ELSE SelectSeq(@[name], LAMBDA d : d # c)]]]

(* keepClientInMainThread, once the thread has let the client go. *)
Kept(r, c) ==
  [r EXCEPT !.cl[c] = [@ EXCEPT !.tid = Main, !.running = Main, !.bound = Main, !.enabled = TRUE]]

(* The I/O thread has paused, and is resumed. *)
Paused ==
  /\ main.at = "pausing" /\ paused[cl[main.client].tid] = "paused"
  /\ LET c == main.client
         r == CASE main.then = "fetch" -> Fetched(Here, c)
                [] main.then = "async" -> CloseInThread(Here, c)
                [] OTHER -> [Here EXCEPT !.cl[c] = Unbound(@)]
     IN  Become(r)
  /\ paused' = [paused EXCEPT ![cl[main.client].tid] = "resuming"]
  /\ main' = [main EXCEPT !.at = "resuming"]
  /\ UNCHANGED <<wake, io, clientsNum, budget>>

Resumed ==
  /\ main.at = "resuming" /\ paused[cl[main.client].tid] = "unpaused"
  /\ LET c == main.client
     IN  CASE main.then \in {"fetch", "free"} -> FreeClient(Here, c)
           [] main.then = "keep" -> Goes(Kept(Here, c)) /\ Count(cl[c].tid, Main)
           [] OTHER -> Goes(Here) /\ UNCHANGED clientsNum
  /\ UNCHANGED <<io, budget>>

(* assignClientToIOThread: the thread with the fewest clients, of the      *)
(* server.io_threads_num that run.                                         *)
Active == {t \in Threads : t <= budget.threads}

Fewest ==
  CHOOSE t \in Active : \A u \in Active \ {t} :
    clientsNum[t] < clientsNum[u] \/ (clientsNum[t] = clientsNum[u] /\ t < u)

AssignClientToIOThread(k, c) ==
  /\ cl' = [cl EXCEPT ![c] = [Unbound(k) EXCEPT !.tid = Fewest, !.running = Fewest, !.enabled = FALSE]]
  /\ list' = [list EXCEPT ![Fewest].toIO = Append(@, c)]

Accept(c) ==
  /\ main.at = "loop" /\ cl[c].state = "new" /\ Spend("clients")
  /\ AssignClientToIOThread([NewClient EXCEPT !.state = "live", !.input = budget.input], c)
  /\ Count(Nobody, Fewest)
  /\ UNCHANGED <<wake, paused, io, main>>

(* handleClientsFromIOThread up to processClientsFromIOThread. *)
HandleClientsFromIOThread(t) ==
  /\ main.at = "loop" /\ <<"main", t>> \in wake
  /\ wake' = wake \ {<<"main", t>>}
  /\ list' = Joined(list, t, "mainPending", "mainProcessing")
  /\ main' = IF list'[t].mainProcessing = <<>> THEN main
             ELSE [main EXCEPT !.at = "process", !.thread = t]
  /\ UNCHANGED <<cl, paused, io, clientsNum, budget>>

(* isClientMustHandledByMainThread *)
MustStay(k) == k.asap \/ k.special

(* What is done with a client that has been run: it is kept, or it goes    *)
(* back to its thread.                                                     *)
HandBack(r, c) ==
  LET k == r.cl[c]
      t == k.tid
  IN  IF MustStay(k)
      THEN LET q == [r EXCEPT !.cl[c].queued = k.reply]
           IN  IF k.bound # Nobody THEN Pause(q, c, "keep") /\ UNCHANGED clientsNum
               ELSE Goes(Kept(q, c)) /\ Count(t, Main)
      ELSE /\ Goes([r EXCEPT !.cl[c].running = t, !.list[t].toIO = <<c>> \o @])
           /\ UNCHANGED clientsNum

(* One turn of the loop of processClientsFromIOThread: a client to be      *)
(* freed, a protocol error, or a command. A command replies; it may also   *)
(* ask for the connection to be closed after the reply, make the client    *)
(* one that the main thread must handle, or flag it to be closed at once.  *)
ProcessClient ==
  /\ main.at = "process" /\ list[main.thread].mainProcessing # <<>>
  /\ LET t == main.thread
         c == Head(list[t].mainProcessing)
         r == [cl |-> [cl EXCEPT ![c].running = Main],
               list |-> [list EXCEPT ![t].mainProcessing = Tail(@)]]
         replied == [r EXCEPT !.cl[c].reply = TRUE]
     IN  IF cl[c].closing THEN FreeClient(r, c) /\ UNCHANGED budget
         ELSE IF cl[c].error
         THEN HandBack([replied EXCEPT !.cl[c].last = TRUE], c) /\ UNCHANGED budget
         ELSE \/ HandBack(replied, c) /\ UNCHANGED budget
              \/ HandBack([replied EXCEPT !.cl[c].last = TRUE], c) /\ Spend("quit")
              \/ HandBack([replied EXCEPT !.cl[c].special = TRUE], c) /\ Spend("special")
              \/ FreeClient([r EXCEPT !.cl[c].asap = TRUE], c) /\ Spend("limit")
  /\ UNCHANGED io

(* Sends the clients that are ready to their thread. *)
Sent(t) ==
  /\ list' = Joined(list, t, "toIO", "pending")
  /\ wake' = wake \cup {<<"io", t>>}

(* The end of processClientsFromIOThread: with appendfsync always, the     *)
(* clients wait for beforeSleep.                                           *)
EndProcessing ==
  /\ main.at = "process" /\ list[main.thread].mainProcessing = <<>>
  /\ main' = Loop
  /\ IF list[main.thread].toIO # <<>> /\ ~budget.always THEN Sent(main.thread)
     ELSE UNCHANGED <<list, wake>>
  /\ UNCHANGED <<cl, paused, io, clientsNum, budget>>

(* beforeSleep: sendPendingClientsToIOThreads. *)
SendPendingClientsToIOThreads(t) ==
  /\ main.at = "loop" /\ list[t].toIO # <<>>
  /\ Sent(t)
  /\ UNCHANGED <<cl, paused, io, main, clientsNum, budget>>

(* beforeSleep: handleClientsWithPendingWrites, for one client. *)
PendingWrite(c) ==
  /\ main.at = "loop" /\ cl[c].queued
  /\ LET k == [cl[c] EXCEPT !.queued = FALSE]
     IN  IF ~k.asap /\ ~k.last /\ ~MustStay(k)
         THEN AssignClientToIOThread(k, c) /\ Count(Main, Fewest) /\ UNCHANGED budget
         ELSE /\ UNCHANGED clientsNum
              /\ IF k.asap THEN Become([Here EXCEPT !.cl[c] = k]) /\ UNCHANGED budget
                 ELSE \E w \in Writes([Here EXCEPT !.cl[c] = k], c) :
                        Become(w[1]) /\ MayHappen(w[2])
  /\ UNCHANGED <<wake, paused, io, main>>

(* beforeSleep: freeClientsInAsyncFreeQueue, for one client. *)
FreeInAsyncQueue(c) ==
  /\ main.at = "loop" /\ cl[c].asap
  /\ FreeClient([Here EXCEPT !.cl[c].asap = FALSE], c)
  /\ UNCHANGED <<io, budget>>

(* An event of a client the main thread handles: a command, after which it *)
(* may no longer be special; the end of the connection; or a write.        *)
EventInMain(c) ==
  /\ main.at = "loop" /\ cl[c].bound = Main /\ ~cl[c].asap
  /\ \/ /\ cl[c].input > 0
        /\ LET r == [Here EXCEPT !.cl[c].input = @ - 1]
               run == [r EXCEPT !.cl[c].reply = TRUE, !.cl[c].queued = TRUE]
           IN  \/ Goes(run) /\ UNCHANGED <<clientsNum, budget>>
               \/ Goes([run EXCEPT !.cl[c].special = FALSE]) /\ UNCHANGED <<clientsNum, budget>>
               \/ Spend("hangup") /\ FreeClient(CloseInMain(r, c), c)
     \/ /\ cl[c].writer
        /\ \E w \in Writes(Here, c) : Goes(w[1]) /\ MayHappen(w[2])
        /\ UNCHANGED clientsNum
  /\ UNCHANGED io

(* CLIENT KILL, a timeout or eviction frees a client, wherever it is. *)
KillClient(c) ==
  /\ Awake /\ cl[c].state = "live" /\ Spend("kill")
  /\ FreeClient(Here, c)
  /\ UNCHANGED io

(* freeClientAsync by the main thread, on any client. *)
FreeClientAsync(c) ==
  /\ Awake /\ cl[c].state = "live" /\ Spend("async")
  /\ IF cl[c].running # Main THEN Pause(Here, c, "async") ELSE Goes(CloseInMain(Here, c))
  /\ UNCHANGED <<io, clientsNum>>

MainLoop ==
  \/ \E t \in Threads : HandleClientsFromIOThread(t) \/ SendPendingClientsToIOThreads(t)
  \/ ProcessClient \/ EndProcessing \/ Paused \/ Resumed
  \/ \E c \in Clients : PendingWrite(c) \/ FreeInAsyncQueue(c) \/ EventInMain(c)

MainThread == MainLoop \/ \E c \in Clients : Accept(c) \/ KillClient(c) \/ FreeClientAsync(c)

-----------------------------------------------------------------------------
Init ==
  /\ cl = [c \in Clients |-> NewClient]
  /\ list = [t \in Threads |-> [name \in Lists |-> <<>>]]
  /\ wake = {}
  /\ paused = [t \in Threads |-> "unpaused"]
  /\ io = [t \in Threads |-> [at |-> "poll", fired |-> {}]]
  /\ main = Loop
  /\ clientsNum = [t \in Threads \cup {Main} |-> 0]
  /\ budget \in Scenarios

Next == MainThread \/ \E t \in Threads : IOThread(t)

Spec == Init /\ [][Next]_vars

(* Every thread keeps running. What is budgeted need not happen. *)
Fairness == WF_vars(MainLoop) /\ \A t \in Threads : WF_vars(IOThread(t))

FairSpec == Spec /\ Fairness

-----------------------------------------------------------------------------
(* Properties. *)

Places(c) ==
  {<<t, name, i>> \in Threads \X Lists \X (1 .. Cardinality(Clients) + 1) :
     i <= Len(list[t][name]) /\ list[t][name][i] = c}

(* "Client only can be in one client list." A client that runs in an I/O   *)
(* thread is in exactly one list, of that thread; one that the main thread *)
(* runs, or has freed, is in none, and one that is freed is not among the  *)
(* events a thread is about to handle. A client on its way from a thread   *)
(* to another has no handler that would touch it, and is not one the main  *)
(* thread is about to free (the assertions of the two hand-over loops).    *)
OnePlace ==
  /\ \A c \in Clients :
       IF cl[c].running # Main
       THEN Cardinality(Places(c)) = 1 /\ \A p \in Places(c) : p[1] = cl[c].tid
       ELSE /\ Places(c) = {}
            /\ cl[c].state = "freed" => \A t \in Threads : c \notin io[t].fired
  /\ \A t \in Threads, name \in Lists \ {"clients"} : \A c \in Range(list[t][name]) :
       ~cl[c].enabled /\ ~cl[c].asap

(* Whatever is sent to a live connection is read: it is never left in a    *)
(* list, with its handlers disabled, or out of every event loop. And what  *)
(* is to be freed is freed.                                                *)
EveryoneServed ==
  \A c \in Clients :
    /\ cl[c].state = "live" /\ cl[c].input > 0 ~> cl[c].input = 0 \/ cl[c].last
    /\ cl[c].closing \/ cl[c].asap ~> cl[c].state = "freed"

=============================================================================
