---------------------------- MODULE MCServiceBus ----------------------------
(***************************************************************************)
(* Small instances of ServiceBus for TLC: two receiver links, r1 and r2,   *)
(* and one sender link, p1.                                                *)
(***************************************************************************)
EXTENDS ServiceBus, TLC

CONSTANTS q, t, s1, s2,   \* a queue, a topic and its two subscriptions
          r1, r2, p1,
          c1, c2, h1, h2, h3

\* What the links attach to: one queue, or a topic and its subscriptions.
NoTopics == <<>>
TwoSubscriptions == (s1 :> t) @@ (s2 :> t)

OneQueue == (r1 :> q) @@ (r2 :> q) @@ (p1 :> q)
OneTopic == (r1 :> s1) @@ (r2 :> s2) @@ (p1 :> t)

\* Where they attach: on two connections; or on one, the receivers one after
\* the other at one handle, or side by side.
Put(r1At, r2At, p1At) == (r1 :> r1At) @@ (r2 :> r2At) @@ (p1 :> p1At)
Place(c, h) == [conn |-> c, handle |-> h]

TwoConns == Put(Place(c1, h1), Place(c2, h1), Place(c2, h2))
OneHandle == Put(Place(c1, h1), Place(c1, h1), Place(c1, h2))
TwoHandles == Put(Place(c1, h1), Place(c1, h2), Place(c1, h3))
=============================================================================
