------------------------------ MODULE AlertFeed ------------------------------
(***************************************************************************)
(* What the Pub/Sub broker promises, without connections and a mutex: one  *)
(* feed of alerts, of which every subscriber shows the alerts behind the   *)
(* position at which it has joined, one by one and without a gap.          *)
(***************************************************************************)
EXTENDS Naturals, Sequences, SequencesExt

CONSTANTS Subscribers, MaxAlerts

VARIABLES
  feed,    \* the alerts in the order in which the broker has taken them
  joined,  \* joined[s]: the length of the feed when s joined
  present, \* the subscribers that have joined and follow the feed
  shown    \* shown[s]: the alerts s has shown

vars == <<feed, joined, present, shown>>

Alerts == 1 .. MaxAlerts

Init ==
  /\ feed = <<>>
  /\ joined = [s \in Subscribers |-> 0]
  /\ present = {}
  /\ shown = [s \in Subscribers |-> <<>>]

Publish(n) ==
  /\ n \notin ToSet(feed)
  /\ feed' = Append(feed, n)
  /\ UNCHANGED <<joined, present, shown>>

\* A subscriber may have left before the broker knows it.
Join(s) ==
  /\ s \notin present
  /\ shown[s] = <<>>
  /\ joined' = [joined EXCEPT ![s] = Len(feed)]
  /\ present' \in {present, present \cup {s}}
  /\ UNCHANGED <<feed, shown>>

Leave(s) ==
  /\ s \in present
  /\ present' = present \ {s}
  /\ UNCHANGED <<feed, joined, shown>>

\* A subscriber that is there shows the next alert.
Show(s) ==
  /\ s \in present
  /\ joined[s] + Len(shown[s]) < Len(feed)
  /\ shown' = [shown EXCEPT ![s] = Append(@, feed[joined[s] + Len(@) + 1])]
  /\ UNCHANGED <<feed, joined, present>>

Next ==
  \/ \E n \in Alerts : Publish(n)
  \/ \E s \in Subscribers : Join(s) \/ Leave(s) \/ Show(s)

Spec == Init /\ [][Next]_vars

\* Who does not leave sees it all.
Fairness == \A s \in Subscribers : WF_vars(Show(s))

=============================================================================
