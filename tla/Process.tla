------------------------------- MODULE Process -------------------------------
(***************************************************************************)
(* The emulator's start and stop: the signing key of                       *)
(* internal/servers/aadserver, and run of cmd/localaz, which binds every   *)
(* listener, serves each in a goroutine of its own, and shuts them down    *)
(* when it is told to or one of them fails.                                *)
(*                                                                         *)
(* net/http, external to the repository, is modelled by what run needs of  *)
(* it: Serve closes its listener when it returns and does nothing once the *)
(* server is shutting down; Shutdown closes the listener of a Serve that   *)
(* has begun, and then waits for requests, at most ten seconds.            *)
(***************************************************************************)
EXTENDS Integers, FiniteSets

CONSTANTS
  Last,            \* how many listeners there are
  MaxStart,        \* bound: how often the process starts
  None             \* no key, listener or error

VARIABLES
  main,            \* where the main goroutine is
  at,              \* the listener it is at
  listener,
  goroutine,       \* where the goroutine that serves each listener is
  shuttingDown,    \* http.Server.inShutdown
  errc,            \* the channel of length one
  cancelled,       \* the context
  ready,           \* managementServer.ready
  result,          \* what run returns: None, or the listener of the error
  keyFile,         \* signing-key.pem: None, Torn or a key
  key,             \* the signer's
  starts,
  \* History.
  failed,          \* the listeners that could not be bound or served
  minted           \* the keys tokens were signed with

run == <<main, at, listener, goroutine, shuttingDown, errc, cancelled, ready, result, failed>>
signer == <<keyFile, key, starts, minted>>
processVars == <<run, signer>>

\* The management server is the first, Service Bus the last.
Listener == 1..Last
Management == 1
IsHTTP(i) == i < Last

Torn == 0

Init ==
  /\ main = "off"
  /\ at = Management
  /\ listener = [i \in Listener |-> "unbound"]
  /\ goroutine = [i \in Listener |-> "none"]
  /\ shuttingDown = [i \in Listener |-> FALSE]
  /\ errc = None
  /\ cancelled = FALSE
  /\ ready = FALSE
  /\ result = None
  /\ failed = {}
  /\ keyFile = None
  /\ key = None
  /\ starts = 0
  /\ minted = {}

Running == main \notin {"off", "return"}

GoTo(where) == main' = where
NoChange == UNCHANGED <<listener, goroutine, shuttingDown, errc, cancelled, ready, result, failed>>

\* main exits, having failed before run.
fatal == GoTo("off") /\ UNCHANGED at /\ NoChange

-----------------------------------------------------------------------------
(* The signing key: drawn anew if there is none, and written in place.     *)

Start ==
  /\ main \in {"off", "return"}
  /\ starts < MaxStart
  /\ starts' = starts + 1
  /\ GoTo("key")
  /\ at' = Management
  /\ listener' = [i \in Listener |-> "unbound"]
  /\ goroutine' = [i \in Listener |-> "none"]
  /\ shuttingDown' = [i \in Listener |-> FALSE]
  /\ errc' = None
  /\ cancelled' = FALSE
  /\ ready' = FALSE
  /\ result' = None
  /\ failed' = {}
  /\ key' = None
  /\ UNCHANGED <<keyFile, minted>>

signerFromFile ==
  /\ main = "key" /\ keyFile # None
  /\ IF keyFile = Torn THEN fatal /\ UNCHANGED key
     ELSE key' = keyFile /\ GoTo("bind") /\ UNCHANGED at /\ NoChange
  /\ UNCHANGED <<keyFile, starts, minted>>

MutNewSignerUnsaved ==
  /\ main = "key" /\ keyFile = None
  /\ key' = starts
  /\ \/ GoTo("write") /\ keyFile' = Torn
     \/ GoTo("bind") /\ UNCHANGED keyFile
  /\ UNCHANGED at /\ NoChange
  /\ UNCHANGED <<starts, minted>>

(* WriteFile creates the file, or fails to, and writes it.                 *)
newSigner ==
  /\ main = "key" /\ keyFile = None
  /\ \/ key' = starts /\ GoTo("write") /\ keyFile' = Torn /\ UNCHANGED at /\ NoChange
     \/ fatal /\ UNCHANGED <<key, keyFile>>
  /\ UNCHANGED <<starts, minted>>

writeKey ==
  /\ main = "write"
  /\ \/ keyFile' = key /\ GoTo("bind") /\ UNCHANGED at /\ NoChange
     \/ fatal /\ UNCHANGED keyFile
  /\ UNCHANGED <<key, starts, minted>>

-----------------------------------------------------------------------------
(* run.                                                                    *)

Bind ==
  /\ main = "bind"
  /\ listener' = [listener EXCEPT ![at] = "open"]
  /\ at' = IF at < Last THEN at + 1 ELSE Management
  /\ GoTo(IF at < Last THEN "bind" ELSE "serve")
  /\ UNCHANGED <<goroutine, shuttingDown, errc, cancelled, ready, result, failed, signer>>

MutCloseListenersShort ==
  /\ main = "bind"
  /\ listener' = [i \in Listener |-> IF i < at - 1 THEN "closed" ELSE listener[i]]
  /\ result' = at
  /\ failed' = failed \cup {at}
  /\ GoTo("return")
  /\ UNCHANGED <<at, goroutine, shuttingDown, errc, cancelled, ready, signer>>

closeListeners ==
  /\ main = "bind"
  /\ listener' = [i \in Listener |-> IF i < at THEN "closed" ELSE listener[i]]
  /\ result' = at
  /\ failed' = failed \cup {at}
  /\ GoTo("return")
  /\ UNCHANGED <<at, goroutine, shuttingDown, errc, cancelled, ready, signer>>

Go ==
  /\ main = "serve"
  /\ goroutine' = [goroutine EXCEPT ![at] = "start"]
  /\ at' = IF at < Last THEN at + 1 ELSE Management
  /\ GoTo(IF at < Last THEN "serve" ELSE "ready")
  /\ UNCHANGED <<listener, shuttingDown, errc, cancelled, ready, result, failed, signer>>

Ready ==
  /\ main = "ready"
  /\ ready' = TRUE
  /\ GoTo("select")
  /\ UNCHANGED <<at, listener, goroutine, shuttingDown, errc, cancelled, result, failed, signer>>

(* Either case if both can go on.                                          *)
Select ==
  /\ main = "select"
  /\ \/ cancelled /\ UNCHANGED <<errc, result>>
     \/ errc # None /\ result' = errc /\ errc' = None
  /\ GoTo("shutdown")
  /\ UNCHANGED <<at, listener, goroutine, shuttingDown, cancelled, ready, failed, signer>>

(* Shutdown of one server after the other, whatever the last one answered. *)
Shutdown ==
  /\ main = "shutdown" /\ IsHTTP(at)
  /\ shuttingDown' = [shuttingDown EXCEPT ![at] = TRUE]
  /\ listener' = IF goroutine[at] = "accept" THEN [listener EXCEPT ![at] = "closed"] ELSE listener
  /\ at' = at + 1
  /\ UNCHANGED <<main, goroutine, errc, cancelled, ready, result, failed, signer>>

CloseAMQP ==
  /\ main = "shutdown" /\ at = Last
  /\ listener' = [listener EXCEPT ![Last] = "closed"]
  /\ GoTo("wait")
  /\ UNCHANGED <<at, goroutine, shuttingDown, errc, cancelled, ready, result, failed, signer>>

Wait ==
  /\ main = "wait"
  /\ \A i \in Listener : goroutine[i] = "done"
  /\ GoTo("return")
  /\ UNCHANGED at /\ NoChange /\ UNCHANGED signer

-----------------------------------------------------------------------------
(* The goroutine of listener i.                                            *)

(* The first of Serve; Service Bus goes on to Accept.                      *)
Serve(i) ==
  /\ goroutine[i] = "start"
  /\ IF shuttingDown[i]
     THEN /\ goroutine' = [goroutine EXCEPT ![i] = "done"]
          /\ listener' = [listener EXCEPT ![i] = "closed"]
     ELSE /\ goroutine' = [goroutine EXCEPT ![i] = "accept"]
          /\ UNCHANGED listener
  /\ UNCHANGED <<main, at, shuttingDown, errc, cancelled, ready, result, failed, signer>>

(* Accept on a closed listener: the error run does not report.             *)
AcceptClosed(i) ==
  /\ goroutine[i] = "accept" /\ listener[i] = "closed"
  /\ goroutine' = [goroutine EXCEPT ![i] = "done"]
  /\ UNCHANGED <<main, at, listener, shuttingDown, errc, cancelled, ready, result, failed, signer>>

(* Any other error.  Service Bus leaves its listener to run.               *)
AcceptFails(i) ==
  /\ Running
  /\ goroutine[i] = "accept" /\ listener[i] = "open"
  /\ goroutine' = [goroutine EXCEPT ![i] = "report"]
  /\ listener' = IF IsHTTP(i) THEN [listener EXCEPT ![i] = "closed"] ELSE listener
  /\ failed' = failed \cup {i}
  /\ UNCHANGED <<main, at, shuttingDown, errc, cancelled, ready, result, signer>>

MutReportErrBlocks(i) ==
  /\ goroutine[i] = "report"
  /\ errc = None /\ errc' = i
  /\ goroutine' = [goroutine EXCEPT ![i] = "done"]
  /\ UNCHANGED <<main, at, listener, shuttingDown, cancelled, ready, result, failed, signer>>

reportErr(i) ==
  /\ goroutine[i] = "report"
  /\ errc' = IF errc = None THEN i ELSE errc
  /\ goroutine' = [goroutine EXCEPT ![i] = "done"]
  /\ UNCHANGED <<main, at, listener, shuttingDown, cancelled, ready, result, failed, signer>>

Goroutine(i) == Running /\ (Serve(i) \/ AcceptClosed(i) \/ reportErr(i))

-----------------------------------------------------------------------------
(* What comes from outside.                                                *)

(* SIGINT or SIGTERM, once main has asked to be told of them.              *)
Cancel ==
  /\ Running /\ ~cancelled
  /\ main \notin {"key", "write"}
  /\ cancelled' = TRUE
  /\ UNCHANGED <<main, at, listener, goroutine, shuttingDown, errc, ready, result, failed, signer>>

(* SIGKILL, or any signal before that: the file system keeps what was      *)
(* written.                                                                *)
Kill ==
  /\ Running
  /\ GoTo("off") /\ UNCHANGED at /\ NoChange /\ UNCHANGED signer

(* A client asks Entra, one of the services, for a token.                  *)
Token ==
  /\ Running
  /\ \E i \in Listener \ {Management, Last} : goroutine[i] = "accept"
  /\ minted' = minted \cup {key}
  /\ UNCHANGED <<run, keyFile, key, starts>>

Next ==
  \/ Start \/ signerFromFile \/ newSigner \/ writeKey
  \/ Bind \/ closeListeners \/ Go \/ Ready \/ Select \/ Shutdown \/ CloseAMQP \/ Wait
  \/ \E i \in Listener : Goroutine(i) \/ AcceptFails(i)
  \/ Cancel \/ Kill \/ Token

Spec == Init /\ [][Next]_processVars

-----------------------------------------------------------------------------
(* Properties.                                                             *)

\* The management server takes a probe and answers it 200.
Healthy == main # "off" /\ goroutine[Management] = "accept" /\ listener[Management] = "open" /\ ready

(* Each place has what run has made by then.                               *)
TypeOK ==
  /\ main \in {"off", "key", "write", "bind", "serve", "ready", "select", "shutdown", "wait",
               "return"}
  /\ listener \in [Listener -> {"unbound", "open", "closed"}]
  /\ goroutine \in [Listener -> {"none", "start", "accept", "report", "done"}]
  /\ shuttingDown \in [Listener -> BOOLEAN]
  /\ {errc, result} \subseteq Listener \cup {None}
  /\ failed \subseteq Listener
  /\ main = "bind" => \A i \in Listener : listener[i] = "open" <=> i < at
  /\ main \in {"bind", "serve", "ready", "select"} => key \notin {None, Torn}

(* When run returns, by whichever way, nothing of it is left: no listener  *)
(* holds its port and no goroutine runs on, one that had not come to its   *)
(* Serve when it was shut down included.                                   *)
NothingLeft ==
  main = "return" => \A i \in Listener : /\ listener[i] # "open"
                                         /\ goroutine[i] \in {"none", "done"}

(* A shutdown ends, however many listeners fail in it: the goroutines that *)
(* Wait waits for come to their end ("a goroutine never blocks on send").  *)
NeverHangs ==
  main = "wait" => \/ ENABLED Wait
                   \/ \E i \in Listener : ENABLED Goroutine(i)

(* "It returns the listener error (if any) so main can decide the process  *)
(* exit code": no error is returned that did not occur, and none is        *)
(* swallowed unless the process was told to stop as well.                  *)
TellsWhy ==
  main = "return" => /\ result # None => result \in failed
                     /\ result = None => cancelled

(* As long as no listener has failed, who is told that the emulator is     *)
(* ready finds every service bound, also while it shuts down (handleHealth;*)
(* the management server is the first to go).  A goroutine may still be on *)
(* its way to Serve: its clients wait in the listener's backlog.           *)
HealthTells ==
  Healthy /\ failed = {} => \A i \in Listener : listener[i] = "open"

(* "stays stable across restarts and tokens minted before a restart keep   *)
(* verifying": one key signs all tokens, whenever the process was killed.  *)
OneKey == Cardinality(minted) <= 1
=============================================================================
