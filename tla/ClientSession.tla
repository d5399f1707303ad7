--------------------------- MODULE ClientSession ---------------------------
(***************************************************************************)
(* One session of the interactive client of Homework3/Codes/client over    *)
(* the replicated store: it runs one command at a time against the replica *)
(* in its base URL, gives each at most 10 s, and SWITCH moves it to another*)
(* replica.  The requests that are not its own come from other clients.    *)
(*                                                                         *)
(* HandlePut does not look at the context of its request: a POST the       *)
(* client has given up is handled, replicated and answered all the same.   *)
(***************************************************************************)
EXTENDS Replication

CONSTANT
  Mine  \* the requests that are PUT commands of this session

ASSUME SessionAssumption == Mine \subseteq Requests

VARIABLES
  addr,    \* the replica in the client's base URL
  command, \* the command the client waits for
  issued,  \* the PUT commands given so far
  socket,  \* socket[r]: the POSTs of this client that r has not taken yet
  told     \* history: told[r][k], the newest entry of k the process of r has
           \* answered to this session, a 503 standing for the entry it leaves

session == <<addr, command, issued, socket, told>>

sessionVars == <<vars, session>>

Prompt == [op |-> "none"]
PutOf(p) == [op |-> "put", request |-> p]
GetOf(k) == [op |-> "get", key |-> k]

Commands == {Prompt} \cup {PutOf(p) : p \in Mine} \cup {GetOf(k) : k \in Keys}

\* The POST never reached a handler and never will.
Lost(p) == phase[p] = "new" /\ \A r \in Replicas : p \notin socket[r]

SessionInit ==
  /\ Init
  /\ addr \in Replicas
  /\ command = Prompt
  /\ issued = {}
  /\ socket = [r \in Replicas |-> {}]
  /\ told = [r \in Replicas |-> [k \in Keys |-> NoEntry]]

-----------------------------------------------------------------------------
(***************************************************************************)
(* The commands.                                                           *)
(***************************************************************************)

\* PUT: the POST is on its way, or nobody listens and the client prints an error.
PutCommand(p) ==
  /\ command = Prompt
  /\ p \notin issued
  /\ issued' = issued \cup {p}
  /\ IF up[addr]
     THEN socket' = [socket EXCEPT ![addr] = @ \cup {p}] /\ command' = PutOf(p)
     ELSE UNCHANGED <<socket, command>>
  /\ UNCHANGED <<vars, addr, told>>

\* The replica takes the POST from its socket: HandlePut, whoever still waits.
TakePut(r, p) ==
  /\ p \in socket[r]
  /\ HandlePut(r, p)
  /\ socket' = [socket EXCEPT ![r] = @ \ {p}]
  /\ UNCHANGED <<addr, command, issued, told>>

\* The status has come, or the connection broke.  Nothing is told by a process
\* that has stopped in the meantime.
PutReturns(p) ==
  /\ command = PutOf(p)
  /\ Lost(p) \/ phase[p] \in {"ok", "failed", "bad", "dropped"}
  /\ command' = Prompt
  /\ told' = IF phase[p] \in {"ok", "failed"} /\ p \in knows[addr]
             THEN [told EXCEPT ![addr][KeyOf[p]] = entry[p]]
             ELSE told
  /\ UNCHANGED <<vars, addr, issued, socket>>

\* GET: the request is on its way; nobody listening is an error at once.
GetCommand(k) ==
  /\ command = Prompt
  /\ up[addr]
  /\ command' = GetOf(k)
  /\ UNCHANGED <<vars, addr, issued, socket, told>>

\* HandleGet answers with the stored entry or 404.
GetReturns(k) ==
  /\ command = GetOf(k)
  /\ up[addr]
  /\ command' = Prompt
  /\ told' = [told EXCEPT ![addr][k] = HandleGet(addr, k)]
  /\ UNCHANGED <<vars, addr, issued, socket>>

\* The 10 s are over, or the connection broke: an error is printed.
GiveUp ==
  /\ command # Prompt
  /\ command' = Prompt
  /\ UNCHANGED <<vars, addr, issued, socket, told>>

\* SWITCH: a new Client with another base URL.
Switch(r) ==
  /\ command = Prompt
  /\ addr' = r
  /\ UNCHANGED <<vars, command, issued, socket, told>>

-----------------------------------------------------------------------------
\* The sockets of a process that stops are closed, and what it told is void.
CrashOf(r) ==
  /\ Crash(r)
  /\ socket' = [socket EXCEPT ![r] = {}]
  /\ told' = [told EXCEPT ![r] = [k \in Keys |-> NoEntry]]
  /\ UNCHANGED <<addr, command, issued>>

Command ==
  \/ \E p \in Mine : PutCommand(p)
  \/ \E k \in Keys : GetCommand(k)
  \/ \E r \in Replicas : Switch(r)

CommandReturns ==
  \/ \E p \in Mine : PutReturns(p)
  \/ \E k \in Keys : GetReturns(k)
  \/ GiveUp

Others ==
  \/ \E r \in Replicas, p \in Requests \ Mine : HandlePut(r, p)
  \/ \E p \in Requests : SendQuorumReturns(p)
  \/ \E p \in Requests, q \in Replicas : Sender(p, q) \/ HandleReplicate(p, q)
  \/ \E r \in Replicas : Restart(r)

SessionNext ==
  \/ Command
  \/ CommandReturns
  \/ \E r \in Replicas, p \in Mine : TakePut(r, p)
  \/ \E r \in Replicas : CrashOf(r)
  \/ Others /\ UNCHANGED session

SessionSpec == SessionInit /\ [][SessionNext]_sessionVars

\* The goroutines of the replicas run; nothing is assumed of the client.
FairSessionSpec == SessionSpec /\ SenderFairness

-----------------------------------------------------------------------------
(***************************************************************************)
(* Properties.                                                             *)
(***************************************************************************)

\* "The local replica still holds the new (unconfirmed) value" (orchestrate.py):
\* what one process of a replica answers to a session on a key only gets newer,
\* over PUTs answered 200 or 503, GETs, commands given up whose POST is handled
\* late, and a SWITCH away and back.
SessionMovesForward ==
  [][\A r \in Replicas, k \in Keys :
       told'[r][k] # told[r][k] =>
         \/ told[r][k] = NoEntry
         \/ up[r] /\ ~up'[r]
         \/ told'[r][k] # NoEntry /\ Beats(told'[r][k], told[r][k])]_sessionVars

=============================================================================
