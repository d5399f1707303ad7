------------------------- MODULE MCVirtualMachines -------------------------
(***************************************************************************)
(* Small instances of module VirtualMachines for TLC.                      *)
(***************************************************************************)
EXTENDS VirtualMachines

CONSTANTS s1, s2, absent, unreadable

\* With lengths of 3 bits: 2 megabytes, 8 (none are left), 4 (a negative length) and 1.
Sizes == [c \in Consumers |-> CASE c = 1 -> 2 [] c = 2 -> 8 [] c = 3 -> 4 [] OTHER -> 1]

\* A login, a file and a page without a parameter.  Alice's password is edited, put
\* behind another entry of hers, or taken away.
LoginForms == {[username |-> "alice", password |-> "right"]}

FileQueries ==
  {[folder |-> "images", name |-> "dir/galaxy"], [folder |-> "etc", name |-> "galaxy"],
   [folder |-> "", name |-> "galaxy"]}

Digests == [right |-> "h1", wrong |-> "h2"]
BaseNames == [x \in {"dir/galaxy", "galaxy", ""} |-> IF x = "" THEN "." ELSE "galaxy"]

Alice(password) == [username |-> "alice", hash |-> Digests[password]]
AccountFiles == {<<Alice("right")>>, <<Alice("wrong"), Alice("right")>>, <<>>, unreadable}

\* The requests that are sent, for memory and for pages.
Sent(consumers, pages) ==
  /\ \A c \in Consumers : consume[c] = "none" <=> c \in consumers
  /\ \A q \in Pages : page[q] = "none" <=> q \in pages

\* The memory and the pages share no state, and neither do two pages.  An instance has
\* two subscribers, a request for memory that breaches the threshold and one that panics;
\* or four requests at the same time; or the request for one page.  What the last two are
\* about needs no subscribers.
InitOneKind ==
  /\ InitSystem
  /\ \/ /\ Sent({1, 3}, {})
        /\ \A s \in Subscribers : process[s] = "new"
        /\ users = <<>> /\ files = [path \in Paths |-> absent]
     \/ /\ Sent(Consumers, {})
        /\ \A s \in Subscribers : process[s] = "gone"
        /\ users = <<>> /\ files = [path \in Paths |-> absent]
     \/ /\ \E asked \in Pages : Sent({}, {asked})
        /\ \A s \in Subscribers : process[s] = "gone"

OneKindSpec == InitOneKind /\ [][NextSystem]_systemVars /\ SystemFairness

=============================================================================
