---------------------------- MODULE PageServices ----------------------------
(***************************************************************************)
(* The pages of the web server that need another machine (Homework2/Codes: *)
(* web-vm/main.go): the login form calls AuthService.Login over JSON-RPC   *)
(* (auth-vm/main.go), a file is fetched with FileService.FetchFile over    *)
(* Go-RPC (file-vm/main.go).  Both services read their disk for every call *)
(* and keep nothing in memory.                                             *)
(*                                                                         *)
(* A request is a page; a call has a connection of its own, which breaks   *)
(* when the service ends.  While a service is up it answers.               *)
(***************************************************************************)
EXTENDS Naturals, Sequences, SequencesExt

CONSTANTS
  Logins,   \* the login forms sent: [username, password]
  Views,    \* the files asked for: [folder, name]
  HashOf,   \* password -> its SHA-256 digest
  BaseOf,   \* name -> its last path element, filepath.Base
  Accounts, \* the contents users.json may have: sequences of [username, hash], or Unreadable
  Unreadable,
  Contents, \* what a file may hold
  Absent    \* there is no such file

Pages == Logins \cup Views
Services == {"auth", "file"}
ServiceOf(q) == IF q \in Logins THEN "auth" ELSE "file"

\* The files of the file server: a folder and the name of a file in it.
Folders == {"files", "images"}
Paths == Folders \X {BaseOf[n] : n \in {v.name : v \in Views}}

ASSUME PagesAssumption ==
  /\ \A v \in Logins : v.password \in DOMAIN HashOf
  /\ \A v \in Views : v.name \in DOMAIN BaseOf
  /\ \A x, y \in DOMAIN HashOf : HashOf[x] = HashOf[y] => x = y
  /\ Logins \cap Views = {}
  /\ \A a \in Accounts \ {Unreadable} : a \in Seq({a[i] : i \in DOMAIN a})

VARIABLES
  up,    \* up[v]: whether the process of service v runs
  users, \* what users.json of the authentication service holds
  files, \* files[path]: what the file server has there
  page,  \* page[q]: where the handler of q is, or the status it has answered
  reply, \* reply[q]: the result of the call, on its way to the handler
  held   \* history: held[q], what the disk held for q while the call ran

pageVars == <<up, users, files, page, reply, held>>

\* The results of a call.
Error == [kind |-> "error"]
Success(is) == [kind |-> "login", success |-> is]
Data(d) == [kind |-> "file", data |-> d]

PathOf(q) == <<q.folder, BaseOf[q.name]>>

\* The part of a disk that q is about.
DiskFor(q, accounts, disk) ==
  IF q \in Logins THEN accounts
  ELSE IF PathOf(q) \in Paths THEN disk[PathOf(q)] ELSE Absent

\* "never": nobody asks for the page.
InitPages ==
  /\ up = [v \in Services |-> TRUE]
  /\ users \in Accounts
  /\ files \in [Paths -> Contents \cup {Absent}]
  /\ page \in [Pages -> {"none", "never"}]
  /\ reply = [q \in Pages |-> Error]
  /\ held = [q \in Pages |-> {}]

-----------------------------------------------------------------------------
(***************************************************************************)
(* The services, as functions of their disk.                               *)
(***************************************************************************)

\* The first entry with the name decides.
Login(q, accounts) ==
  LET first == SelectInSeq(accounts, LAMBDA u : u.username = q.username)
  IN  IF accounts = Unreadable THEN Error
      ELSE Success(first # 0 /\ accounts[first].hash = HashOf[q.password])

\* (mutant of FetchFile) what is not an image is taken from files.
FetchFileAnyFolder(q, disk) ==
  LET path == <<IF q.folder = "images" THEN "images" ELSE "files", BaseOf[q.name]>>
  IN  IF disk[path] = Absent THEN Error ELSE Data(disk[path])

\* Two folders, and only the last element of the name counts.
FetchFile(q, disk) ==
  IF PathOf(q) \notin Paths \/ disk[PathOf(q)] = Absent
  THEN Error
  ELSE Data(disk[PathOf(q)])

-----------------------------------------------------------------------------
(***************************************************************************)
(* handleLoginRoute and handleFileViewerRoute.                             *)
(***************************************************************************)
Ask(q) ==
  /\ page[q] = "none"
  /\ page' = [page EXCEPT ![q] =
       IF q \in Views /\ "" \in {q.folder, q.name} THEN "400" ELSE "dialing"]
  /\ UNCHANGED <<up, users, files, reply, held>>

\* Nobody listens: 500.  Otherwise the call is on its way.
DialService(q) ==
  /\ page[q] = "dialing"
  /\ IF up[ServiceOf(q)]
     THEN /\ page' = [page EXCEPT ![q] = "calling"]
          /\ held' = [held EXCEPT ![q] = {DiskFor(q, users, files)}]
     ELSE /\ page' = [page EXCEPT ![q] = "500"]
          /\ UNCHANGED held
  /\ UNCHANGED <<up, users, files, reply>>

\* The service runs the call on what its disk holds now.
Serve(q) ==
  /\ page[q] = "calling"
  /\ up[ServiceOf(q)]
  /\ page' = [page EXCEPT ![q] = "returning"]
  /\ reply' = [reply EXCEPT ![q] = IF q \in Logins THEN Login(q, users) ELSE FetchFile(q, files)]
  /\ UNCHANGED <<up, users, files, held>>

\* (mutant of Return) lets in whoever was not refused.
ReturnUnchecked(q) ==
  /\ page[q] = "returning"
  /\ page' = [page EXCEPT ![q] =
       IF q \in Logins THEN (IF reply[q] = Success(FALSE) THEN "401" ELSE "303")
       ELSE IF reply[q] = Error THEN "500" ELSE "200"]
  /\ UNCHANGED <<up, users, files, reply, held>>

\* Call returns.  A login is redirected to the dashboard or denied, whatever the
\* reason; a file is sent, or the error is.
Return(q) ==
  /\ page[q] = "returning"
  /\ page' = [page EXCEPT ![q] =
       IF q \in Logins THEN (IF reply[q] = Success(TRUE) THEN "303" ELSE "401")
       ELSE IF reply[q] = Error THEN "500" ELSE "200"]
  /\ UNCHANGED <<up, users, files, reply, held>>

-----------------------------------------------------------------------------
(***************************************************************************)
(* The machines of the services.                                           *)
(***************************************************************************)
\* Bound: the machines change only while a page may still be affected.
Unanswered == \E q \in Pages : page[q] \in {"none", "dialing", "calling", "returning"}

Calls(v) == {q \in Pages : ServiceOf(q) = v /\ page[q] \in {"calling", "returning"}}

\* (mutant of StopService) a call in progress is forgotten.
StopServiceSilently(v) ==
  /\ up[v] /\ Unanswered
  /\ up' = [up EXCEPT ![v] = FALSE]
  /\ page' = [q \in Pages |-> IF q \in Calls(v) THEN "forgotten" ELSE page[q]]
  /\ UNCHANGED <<users, files, reply, held>>

\* The process ends and its connections break: Call returns an error, but a reply
\* that is on its way may still arrive.
StopService(v) ==
  /\ up[v] /\ Unanswered
  /\ up' = [up EXCEPT ![v] = FALSE]
  /\ \E arrives \in SUBSET {q \in Calls(v) : page[q] = "returning"} :
       /\ page' = [q \in Pages |-> IF q \in Calls(v) THEN "returning" ELSE page[q]]
       /\ reply' = [q \in Pages |-> IF q \in Calls(v) \ arrives THEN Error ELSE reply[q]]
  /\ UNCHANGED <<users, files, held>>

StartService(v) ==
  /\ ~up[v] /\ Unanswered
  /\ up' = [up EXCEPT ![v] = TRUE]
  /\ UNCHANGED <<users, files, page, reply, held>>

\* Somebody edits users.json, or a file; what is half written cannot be read.
Edit ==
  /\ Unanswered
  /\ \/ users' \in Accounts /\ UNCHANGED files
     \/ UNCHANGED users /\ files' \in [Paths -> Contents \cup {Absent}]
  /\ held' = [q \in Pages |->
       IF page[q] = "calling" THEN held[q] \cup {DiskFor(q, users', files')} ELSE held[q]]
  /\ UNCHANGED <<up, page, reply>>

-----------------------------------------------------------------------------
HandlePage(q) == DialService(q) \/ Serve(q) \/ Return(q)

NextPages ==
  \/ \E q \in Pages : Ask(q) \/ HandlePage(q)
  \/ \E v \in Services : StopService(v) \/ StartService(v)
  \/ Edit

-----------------------------------------------------------------------------
(***************************************************************************)
(* Properties.                                                             *)
(***************************************************************************)

\* The entry of a user is the first of that name.
HasPassword(accounts, q) ==
  \E i \in DOMAIN accounts :
    /\ accounts[i].username = q.username
    /\ accounts[i].hash = HashOf[q.password]
    /\ \A j \in 1 .. i - 1 : accounts[j].username # q.username

\* "All credential verifications must pass securely through this decoupled layer"
\* (auth-vm/README.md): who is sent to the dashboard had this password in users.json
\* while the call ran, and who is denied had not, unless the call has failed; no
\* edit, restart or broken connection changes that.
LoginJudged ==
  \A q \in Logins :
    LET readable == held[q] \ {Unreadable}
    IN  /\ page[q] = "303" => \E accounts \in readable : HasPassword(accounts, q)
        /\ page[q] = "401" /\ reply[q] # Error =>
             \E accounts \in readable : ~HasPassword(accounts, q)

\* A page that shows a file shows what the folder named in the query held under that
\* name while the call ran.
FileServed ==
  \A q \in Views :
    page[q] = "200" => /\ q.folder \in Folders
                       /\ reply[q].data \in held[q] \ {Absent}

\* A page is answered even when the service ends in the middle of the call.
PageAnswered ==
  \A q \in Pages : page[q] = "dialing" ~> page[q] \in {"303", "401", "500", "200"}

=============================================================================
