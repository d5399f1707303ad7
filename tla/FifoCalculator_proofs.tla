------------------------ MODULE FifoCalculator_proofs ------------------------
(***************************************************************************)
(* Proofs about modules Calculator and FifoCalculator: for every width of  *)
(* int, every operation, any number of runs, requests and kills.           *)
(***************************************************************************)
EXTENDS FifoCalculator, FiniteSetTheorems, TLAPS

-----------------------------------------------------------------------------
(***************************************************************************)
(* The arithmetic.                                                         *)
(***************************************************************************)

\* What div and % are, with a divisor of any size.
LEMMA Division ==
  ASSUME NEW n \in Int, NEW m \in Int, m > 0
  PROVE  /\ n % m \in 0 .. m - 1
         /\ n \div m \in Int
         /\ n = m * (n \div m) + (n % m)
OBVIOUS

LEMMA MultipleHasNoRest ==
  ASSUME NEW m \in Int, m > 0, NEW k \in Int
  PROVE  (m * k) % m = 0
OBVIOUS

\* Wrap gives an int, and differs from its argument by a multiple of the modulus.
LEMMA WrapIsCongruent ==
  ASSUME NEW n \in Int
  PROVE  Wrap(n) \in Ints /\ (Wrap(n) - n) % Modulus = 0
<1> DEFINE q == (n - MinInt) \div Modulus
<1>1. MaxInt \in Nat /\ MinInt \in Int /\ Modulus \in Int /\ Modulus > 0 /\ Modulus = MaxInt - MinInt + 1
  BY MaxIntAssumption DEF MinInt, Modulus
<1>2. /\ (n - MinInt) % Modulus \in 0 .. Modulus - 1
      /\ q \in Int
      /\ n - MinInt = Modulus * q + ((n - MinInt) % Modulus)
  BY <1>1, Division
<1> HIDE DEF q
<1>3. Wrap(n) \in Ints
  BY <1>1, <1>2 DEF Wrap, Ints
<1>4. -q \in Int /\ Wrap(n) - n = Modulus * (-q)
  BY <1>1, <1>2 DEF Wrap
<1> QED
  BY <1>1, <1>3, <1>4, MultipleHasNoRest

\* An int is its own wrapped value.
LEMMA WrapOfInt ==
  ASSUME NEW n \in Ints
  PROVE  Wrap(n) = n
<1>1. n - MinInt \in 0 .. Modulus - 1 /\ n \in Int /\ MinInt \in Int /\ Modulus \in Int /\ Modulus > 0
  BY MaxIntAssumption DEF Ints, MinInt, Modulus
<1>2. (n - MinInt) % Modulus = n - MinInt
  BY <1>1
<1> QED
  BY <1>1, <1>2 DEF Wrap

\* A quotient is rounded towards zero, and its rest has the sign of the dividend.
LEMMA QuotientRounds ==
  ASSUME NEW a \in Int, NEW b \in Int, b # 0
  PROVE  LET q == Quotient(a, b)
             rest == a - b * q
         IN  /\ q \in Int
             /\ rest < (IF b < 0 THEN -b ELSE b)
             /\ -rest < (IF b < 0 THEN -b ELSE b)
             /\ rest = 0 \/ (rest < 0) = (a < 0)
<1> DEFINE x == IF a < 0 THEN -a ELSE a
           y == IF b < 0 THEN -b ELSE b
           size == x \div y
           r == x % y
<1>1. x \in Nat /\ y \in Nat /\ y > 0
  OBVIOUS
<1>2. r \in 0 .. y - 1 /\ size \in Int /\ x = y * size + r
  BY <1>1, Division
<1>3. Quotient(a, b) = IF (a < 0) = (b < 0) THEN size ELSE -size
  BY DEF Quotient
<1> HIDE DEF size, r
<1>4. a - b * Quotient(a, b) = IF a < 0 THEN -r ELSE r
  <2>1. CASE a < 0 /\ b < 0
    BY <1>1, <1>2, <1>3, <2>1
  <2>2. CASE a < 0 /\ ~(b < 0)
    BY <1>1, <1>2, <1>3, <2>2
  <2>3. CASE ~(a < 0) /\ b < 0
    BY <1>1, <1>2, <1>3, <2>3
  <2>4. CASE ~(a < 0) /\ ~(b < 0)
    BY <1>1, <1>2, <1>3, <2>4
  <2> QED
    BY <2>1, <2>2, <2>3, <2>4
<1>5. Quotient(a, b) \in Int
  BY <1>2, <1>3
<1> QED
  BY <1>1, <1>2, <1>4, <1>5

\* Only the least int divided by -1 leaves the range of int.
LEMMA QuotientIsInt ==
  ASSUME NEW a \in Ints, NEW b \in Ints, b # 0, b # -1
  PROVE  Quotient(a, b) \in Ints
<1> DEFINE x == IF a < 0 THEN -a ELSE a
           y == IF b < 0 THEN -b ELSE b
           size == x \div y
           r == x % y
<1>1. a \in Int /\ b \in Int /\ MaxInt \in Nat
  BY MaxIntAssumption DEF Ints, MinInt
<1>2. x \in Nat /\ y \in Nat /\ y > 0
  BY <1>1
<1>3. r \in 0 .. y - 1 /\ size \in Int /\ x = y * size + r
  BY <1>1, <1>2, Division
<1>4. Quotient(a, b) = IF (a < 0) = (b < 0) THEN size ELSE -size
  BY DEF Quotient
<1>5. x <= MaxInt + 1 /\ (x = MaxInt + 1 => a < 0)
  BY <1>1 DEF Ints, MinInt
<1> HIDE DEF size, r
<1>6. size >= 0
  <2> SUFFICES ASSUME size <= -1 PROVE FALSE
    BY <1>3
  <2>1. y * size <= -y
    BY <1>2, <1>3
  <2> QED
    BY <1>2, <1>3, <2>1
<1>7. size <= x
  <2> SUFFICES ASSUME size > x PROVE FALSE
    BY <1>2, <1>3
  <2>1. y * size >= size
    BY <1>2, <1>3, <1>6
  <2> QED
    BY <1>2, <1>3, <2>1
<1>8. CASE b = 1
  <2>1. y = 1 /\ y * size = size /\ r = 0
    BY <1>3, <1>8
  <2>2. Quotient(a, b) = a
    BY <1>1, <1>3, <1>4, <1>8, <2>1
  <2> QED
    BY <2>2
<1>9. CASE b # 1
  <2>1. y >= 2
    BY <1>1, <1>9
  <2>2. y * size >= 2 * size
    BY <1>2, <1>3, <1>6, <2>1
  <2>3. 2 * size <= MaxInt + 1
    BY <1>1, <1>2, <1>3, <1>5, <2>2
  <2>4. size <= MaxInt
    BY <1>1, <1>3, <2>3, MaxIntAssumption
  <2> QED
    BY <1>1, <1>3, <1>4, <1>6, <2>4 DEF Ints, MinInt
<1> QED
  BY <1>8, <1>9

\* Division by -1 changes the sign.
LEMMA QuotientByMinusOne ==
  ASSUME NEW a \in Int
  PROVE  Quotient(a, -1) = -a
<1> DEFINE x == IF a < 0 THEN -a ELSE a
<1>1. x \in Nat /\ x \div 1 = x
  OBVIOUS
<1>2. Quotient(a, -1) = IF (a < 0) = TRUE THEN x ELSE -x
  BY <1>1 DEF Quotient
<1> QED
  BY <1>2

\* What the worker computes is what a user of the calculator may expect.
LEMMA WorkerComputes ==
  ASSUME NEW req \in Request
  PROVE  IsAnswer(req, process_operation_req(req))
<1> DEFINE a == req.operand1
           b == req.operand2
           res == process_operation_req(req)
<1>1. a \in Ints /\ b \in Ints /\ a \in Int /\ b \in Int
  BY MaxIntAssumption DEF Request, Ints, MinInt
<1>2. req.operation \in {"ADD", "SUB", "MUL", "DIV"}
  BY DEF Request
<1>3. CASE req.operation = "ADD"
  <2>1. res = Ok(a + b) /\ a + b \in Int
    BY <1>1, <1>3 DEF process_operation_req
  <2> HIDE DEF a, b, res
  <2>2. res.status = "ok" /\ res.result \in Ints /\ (res.result - (a + b)) % Modulus = 0
    BY <2>1, WrapIsCongruent DEF Ok
  <2> QED
    BY <1>3, <2>2 DEF IsAnswer, a, b, res
<1>4. CASE req.operation = "SUB"
  <2>1. res = Ok(a - b) /\ a - b \in Int
    BY <1>1, <1>4 DEF process_operation_req
  <2> HIDE DEF a, b, res
  <2>2. res.status = "ok" /\ res.result \in Ints /\ (res.result - (a - b)) % Modulus = 0
    BY <2>1, WrapIsCongruent DEF Ok
  <2> QED
    BY <1>4, <2>2 DEF IsAnswer, a, b, res
<1>5. CASE req.operation = "MUL"
  <2>1. res = Ok(a * b) /\ a * b \in Int
    BY <1>1, <1>5 DEF process_operation_req
  <2> HIDE DEF a, b, res
  <2>2. res.status = "ok" /\ res.result \in Ints /\ (res.result - (a * b)) % Modulus = 0
    BY <2>1, WrapIsCongruent DEF Ok
  <2> QED
    BY <1>5, <2>2 DEF IsAnswer, a, b, res
<1>6. CASE req.operation = "DIV" /\ b = 0
  <2>1. res = Err("division_by_zero")
    BY <1>6 DEF process_operation_req
  <2> QED
    BY <1>6, <2>1 DEF IsAnswer, Err
<1>7. CASE req.operation = "DIV" /\ b # 0 /\ b = -1
  <2>1. res = Ok(-a) /\ -a \in Int
    BY <1>1, <1>7, QuotientByMinusOne DEF process_operation_req
  <2> HIDE DEF a, b, res
  <2>2. res.status = "ok" /\ res.result \in Ints /\ (res.result - (-a)) % Modulus = 0
    BY <2>1, WrapIsCongruent DEF Ok
  <2> QED
    BY <1>7, <2>2 DEF IsAnswer, a, b, res
<1>8. CASE req.operation = "DIV" /\ b # 0 /\ b # -1
  <2>1. res = Ok(Quotient(a, b))
    BY <1>8 DEF process_operation_req
  <2> HIDE DEF a, b, res
  <2>2. res.status = "ok" /\ res.result = Quotient(a, b) /\ res.result \in Ints
    BY <1>1, <1>8, <2>1, QuotientIsInt, WrapOfInt DEF Ok
  <2>3. LET rest == a - b * res.result
        IN  /\ rest < (IF b < 0 THEN -b ELSE b)
            /\ -rest < (IF b < 0 THEN -b ELSE b)
            /\ rest = 0 \/ (rest < 0) = (a < 0)
    BY <1>1, <1>8, <2>2, QuotientRounds
  <2> QED
    BY <1>8, <2>2, <2>3 DEF IsAnswer, a, b, res
<1> QED
  BY <1>2, <1>3, <1>4, <1>5, <1>6, <1>7, <1>8

\* A response survives its line: decoded into a variable of its own, it is what the
\* worker has encoded.
LEMMA LineKeepsResponse ==
  ASSUME NEW res, res = [status |-> res.status, result |-> res.result, error |-> res.error],
         NEW last
  PROVE  Received(Marshal(res), last) = res
<1> DEFINE line == Marshal(res)
<1>1. /\ DOMAIN line = {"status"} \cup (IF res.result = 0 THEN {} ELSE {"result"})
                                 \cup (IF res.error = "" THEN {} ELSE {"error"})
      /\ \A f \in DOMAIN line : line[f] = res[f]
  BY DEF Marshal
<1> HIDE DEF line
<1>2. DOMAIN ZeroResponse = {"status", "result", "error"}
  BY DEF ZeroResponse
<1>3. /\ "status" \in DOMAIN line
      /\ "result" \in DOMAIN line \/ res["result"] = 0
      /\ "error" \in DOMAIN line \/ res["error"] = ""
  BY <1>1
<1>4. /\ ZeroResponse["result"] = 0 /\ ZeroResponse["error"] = ""
  BY DEF ZeroResponse
<1>5. \A f \in {"status", "result", "error"} :
        (IF f \in DOMAIN line THEN line[f] ELSE ZeroResponse[f]) = res[f]
  BY <1>1, <1>3, <1>4
<1>6. Unmarshal(line, ZeroResponse) = [f \in {"status", "result", "error"} |-> res[f]]
  BY <1>2, <1>5 DEF Unmarshal
<1> QED
  BY <1>6 DEF Received, line

-----------------------------------------------------------------------------
(***************************************************************************)
(* The inductive invariant: who runs, and which pipes lead where.          *)
(***************************************************************************)

OneRuns == \A i, j \in Interfaces : Running(i) /\ Running(j) => i = j

\* The points at which the worker has made a pair of pipes that nobody has opened
\* for writing, and those before the first line of a session may be read.
Making == {"makeRes", "openReq", "awaitWriter"}
Opening == Making \cup {"openRes", "awaitReader"}
InSession == {"openRes", "awaitReader", "read", "respond", "closeReq", "closeRes"}

\* The names lead to the newest pipes, or nowhere.
NamesLead ==
  /\ reqPath \in {0, gen} /\ resPath \in {0, gen}
  /\ worker \in Opening \cup InSession => gen > 0
  /\ worker = "makeRes" => reqPath = gen /\ resPath = 0
  /\ worker \in (Opening \cup InSession) \ {"makeRes"} => reqPath = gen /\ resPath = gen
  /\ worker = "removeRes" => reqPath = 0
  /\ worker = "makeReq" => reqPath = 0 /\ resPath = 0

\* An interface opens the request pipe first, and never older pipes after newer.
EndsOrdered ==
  \A i \in Interfaces :
    /\ reqEnd[i] \in 0 .. gen /\ resEnd[i] \in 0 .. gen
    /\ iface[i] \in {"new", "openReq"} => reqEnd[i] = 0
    /\ iface[i] \in {"new", "openReq", "awaitRequests", "openRes"} => resEnd[i] = 0
    /\ iface[i] \in {"awaitRequests", "openRes"} => reqEnd[i] > 0
    /\ iface[i] \in {"awaitResponses", "idle", "waiting", "killedWaiting"}
         => 0 < reqEnd[i] /\ reqEnd[i] <= resEnd[i]
    /\ iface[i] \in {"waiting", "killedWaiting"} => reqEnd[i] = resEnd[i]
    /\ iface[i] \in {"idle", "waiting"} /\ resEnd[i] = gen => worker \notin Opening

\* The generations nobody has opened, but for the one in the making.
Opened == {reqEnd[i] : i \in Interfaces}
Wasted == {g \in 1 .. gen : g \notin Opened /\ ~(g = gen /\ worker \in Making)}

\* A session needs an interface to begin, so only a kill wastes a generation.
KillsWaste ==
  /\ worker \in InSession => gen \in Opened
  /\ Cardinality(Wasted) <= kills

RespondsToLine == worker = "respond" => lines # <<>>

TriesLeft == \A i \in Interfaces : iface[i] \in {"new", "openReq"} => tried[i] < MaxAttempts

Sessions ==
  /\ TypeOK /\ OneRuns /\ NamesLead /\ EndsOrdered /\ KillsWaste
  /\ TriesLeft /\ RespondsToLine

-----------------------------------------------------------------------------
(***************************************************************************)
(* The inductive invariant: the lines in the pipes.                        *)
(***************************************************************************)

\* An interface starts when those before it have ended.
StartOrder ==
  \A i, j \in Interfaces :
    i < j /\ iface[j] # "new" => iface[i] # "new" /\ ~Running(i)

\* The worker reads the lines of g.
Live(g) == gen = g /\ worker \in {"read", "respond"}

NewPipesEmpty ==
  \A g \in Generations :
    g > gen \/ (g = gen /\ worker \in Opening) => reqBuf[g] = <<>> /\ resBuf[g] = <<>>

\* An interface without a session has asked and read nothing, and an answer comes
\* after a request.
BeforeSession ==
  \A i \in Interfaces :
    /\ iface[i] \in {"new", "openReq", "awaitRequests", "openRes", "awaitResponses"} =>
         asked[i] = 0 /\ replies[i] = <<>> /\ answer[i] = NoRequest
    /\ iface[i] = "waiting" \/ answer[i] # NoRequest => asked[i] > 0

\* The interfaces that have sent a request on g and have not read an answer to it.
Unanswered(g) ==
  {j \in Interfaces : iface[j] \in {"waiting", "killedWaiting"} /\ reqEnd[j] = g}

\* The requests of sent behind request a.
Behind(sent, a) == {b \in sent : Precedes(a, b)}

\* With d lines before them, the lines of s carry requests of sent, each so late that
\* it, the requests behind it and the lines before it are no more than owed answers.
Due(sent, owed, s, d) ==
  \A n \in 1 .. Len(s) :
    /\ s[n] \in sent
    /\ Cardinality(Behind(sent, s[n])) + n + d <= owed

\* What is owed on the pipes of g: the answers not read.
DueOn(g, s, d) == Due(SentOn(g), Cardinality(Unanswered(g)), s, d)

\* The lines on the pipes of g that can still be read as answers, first to last.
Carries(g, d) ==
  /\ DueOn(g, resBuf[g], d)
  /\ Live(g) => /\ DueOn(g, lines, Len(resBuf[g]) + d)
                /\ DueOn(g, reqBuf[g], Len(lines) + Len(resBuf[g]) + d)

Reads(i, g) == iface[i] \in {"idle", "waiting"} /\ resEnd[i] = g

AnswersDue(g) ==
  /\ Carries(g, 0)
  /\ \A i \in Interfaces :
       Reads(i, g) => DueOn(g, replies[i], 0) /\ Carries(g, Len(replies[i]))

LinesDue == \A g \in Generations : AnswersDue(g)

Lines ==
  Sessions /\ NewPipesEmpty /\ BeforeSession /\ StartOrder /\ LinesDue /\ AnswersInTurn

-----------------------------------------------------------------------------
(***************************************************************************)
(* Type correctness.                                                       *)
(***************************************************************************)

\* The numbers 1 .. n are n.
LEMMA IntervalSize ==
  ASSUME NEW n \in Nat
  PROVE  IsFiniteSet(1 .. n) /\ Cardinality(1 .. n) = n
<1>1. 1 \in Int /\ n \in Int
  OBVIOUS
<1>2. /\ IsFiniteSet(1 .. n)
      /\ Cardinality(1 .. n) = IF 1 > n THEN 0 ELSE n - 1 + 1
  BY <1>1, FS_Interval, Zenon
<1> QED
  BY <1>2

\* A worker about to make pipes has room for one generation more: each earlier one
\* was opened by an interface of its own, or wasted by a kill.
LEMMA RoomForGeneration ==
  ASSUME Sessions, worker = "makeReq"
  PROVE  gen + 1 \in Generations
<1>1. gen \in Nat /\ kills \in 0 .. WorkerKills /\ Runs \in Nat /\ WorkerKills \in Nat
  BY BoundsAssumption DEF Sessions, TypeOK, Generations
<1>2. IsFiniteSet(Interfaces) /\ Cardinality(Interfaces) = Runs
  BY <1>1, IntervalSize, Zenon DEF Interfaces
<1>3. IsFiniteSet(Opened) /\ Cardinality(Opened) <= Runs
  <2>1. reqEnd \in Surjection(Interfaces, Opened)
    BY DEF Surjection, Opened, Sessions, TypeOK
  <2> QED
    BY <1>2, <2>1, FS_Surjection
<1>4. IsFiniteSet(1 .. gen) /\ Cardinality(1 .. gen) = gen
  BY <1>1, IntervalSize, Zenon
<1>5. IsFiniteSet(Wasted) /\ Cardinality(Wasted) <= kills
  BY <1>4, FS_Subset DEF Wasted, Sessions, KillsWaste
<1>6. 1 .. gen \subseteq Wasted \cup Opened
  BY DEF Wasted, Making
<1>7. /\ IsFiniteSet(Wasted \cup Opened)
      /\ Cardinality(Wasted \cup Opened) <= Cardinality(Wasted) + Cardinality(Opened)
  <2>1. /\ IsFiniteSet(Wasted \cup Opened) /\ IsFiniteSet(Wasted \cap Opened)
        /\ Cardinality(Wasted \cup Opened)
             = Cardinality(Wasted) + Cardinality(Opened) - Cardinality(Wasted \cap Opened)
    BY <1>3, <1>5, FS_Union, FS_Subset
  <2>2. /\ Cardinality(Wasted) \in Nat /\ Cardinality(Opened) \in Nat
        /\ Cardinality(Wasted \cap Opened) \in Nat
    BY <1>3, <1>5, <2>1, FS_CardinalityType
  <2> QED
    BY <2>1, <2>2
<1>8. gen <= Cardinality(Wasted \cup Opened)
  <2>1. Cardinality(1 .. gen) <= Cardinality(Wasted \cup Opened)
    BY <1>6, <1>7, FS_Subset
  <2> QED
    BY <1>4, <2>1
<1>9. /\ Cardinality(Wasted) \in Nat /\ Cardinality(Opened) \in Nat
      /\ Cardinality(Wasted \cup Opened) \in Nat
  BY <1>3, <1>5, <1>7, FS_CardinalityType
<1> QED
  BY <1>1, <1>3, <1>5, <1>7, <1>8, <1>9 DEF Generations

LEMMA SessionsInit == Init => Sessions
<1> SUFFICES ASSUME Init PROVE Sessions
  OBVIOUS
<1>1. /\ Runs \in Nat /\ WorkerKills \in Nat /\ MaxAttempts \in Nat \ {0} /\ MaxRequests \in Nat
      /\ 0 \in Ints
  BY BoundsAssumption, MaxIntAssumption DEF Ints, MinInt
<1>2. TypeOK
  <2>1. ZeroResponse \in Response
    BY <1>1 DEF ZeroResponse, Response
  <2>2. <<>> \in Seq(RequestIds)
    OBVIOUS
  <2>3. worker \in WorkerPoints /\ iface \in [Interfaces -> InterfacePoints]
    BY DEF Init, WorkerPoints, InterfacePoints
  <2> QED
    BY <1>1, <2>1, <2>2, <2>3 DEF Init, TypeOK
<1>3. OneRuns /\ NamesLead /\ EndsOrdered /\ TriesLeft /\ RespondsToLine
  BY <1>1 DEF Init, OneRuns, NamesLead, EndsOrdered, TriesLeft, RespondsToLine, Running, Opening, Making, InSession
<1>4. Wasted = {}
  BY DEF Wasted, Init
<1>5. KillsWaste
  BY <1>4, FS_EmptySet DEF KillsWaste, Init, InSession
<1> QED
  BY <1>2, <1>3, <1>5 DEF Sessions

\* The pipes somebody works with have been made.
LEMMA PipesExist ==
  ASSUME Sessions
  PROVE  /\ gen \in Nat
         /\ worker \in Opening \cup InSession => gen \in Generations
         /\ \A i \in Interfaces :
              /\ iface[i] \in {"awaitResponses", "idle", "waiting"} =>
                   resEnd[i] \in Generations /\ reqEnd[i] \in Generations
              /\ resEnd[i] \in Nat /\ reqEnd[i] \in Nat
<1>1. gen \in Nat /\ gen \in Generations \cup {0}
  BY BoundsAssumption DEF Sessions, TypeOK, Generations
<1>2. \A e \in 0 .. gen : e > 0 => e \in Generations
  BY <1>1, BoundsAssumption DEF Generations
<1>3. worker \in Opening \cup InSession => gen \in Generations
  BY <1>1, <1>2 DEF Sessions, NamesLead
<1>4. ASSUME NEW i \in Interfaces, iface[i] \in {"awaitResponses", "idle", "waiting"}
      PROVE  resEnd[i] > 0 /\ reqEnd[i] > 0
  BY <1>1, <1>4 DEF Sessions, EndsOrdered
<1>5. \A i \in Interfaces : resEnd[i] \in 0 .. gen /\ reqEnd[i] \in 0 .. gen
  BY DEF Sessions, EndsOrdered
<1> QED
  BY <1>1, <1>2, <1>3, <1>4, <1>5

\* The answer an interface prints is a response.
LEMMA PrintedIsResponse ==
  ASSUME NEW request \in RequestIds, NEW last
  PROVE  LET res == Received(Marshal(process_operation_req(OperationOf[request])), last)
         IN  res \in Response /\ IsAnswer(OperationOf[request], res)
<1> DEFINE req == OperationOf[request]
           res == process_operation_req(req)
<1>1. req \in Request
  BY OperationAssumption
<1>2. IsAnswer(req, res)
  BY <1>1, WorkerComputes
<1> HIDE DEF req
<1>3. /\ req.operation \in {"ADD", "SUB", "MUL", "DIV"}
      /\ req.operand1 \in Int /\ req.operand2 \in Int
  BY <1>1, MaxIntAssumption DEF Request, Ints, MinInt
<1>4. \/ \E n \in Int : res = Ok(n)
      \/ res = Err("division_by_zero")
  <2>1. CASE req.operation = "DIV" /\ req.operand2 = 0
    BY <2>1 DEF process_operation_req
  <2>2. CASE req.operation = "DIV" /\ req.operand2 # 0
    <3>1. Quotient(req.operand1, req.operand2) \in Int
      BY <1>3, <2>2, QuotientRounds
    <3>2. res = Ok(Quotient(req.operand1, req.operand2))
      BY <2>2 DEF process_operation_req
    <3> QED
      BY <3>1, <3>2
  <2>3. CASE req.operation \in {"ADD", "SUB", "MUL"}
    <3>1. /\ req.operand1 + req.operand2 \in Int
          /\ req.operand1 - req.operand2 \in Int
          /\ req.operand1 * req.operand2 \in Int
      BY <1>3
    <3>2. /\ req.operation = "ADD" => res = Ok(req.operand1 + req.operand2)
          /\ req.operation = "SUB" => res = Ok(req.operand1 - req.operand2)
          /\ req.operation = "MUL" => res = Ok(req.operand1 * req.operand2)
      BY DEF process_operation_req
    <3> QED
      BY <2>3, <3>1, <3>2
  <2> QED
    BY <1>3, <2>1, <2>2, <2>3
<1> HIDE DEF res
<1>5. 0 \in Ints
  BY MaxIntAssumption DEF Ints, MinInt
<1>6. res \in Response /\ res = [status |-> res.status, result |-> res.result, error |-> res.error]
  <2>1. CASE res = Err("division_by_zero")
    BY <1>5, <2>1 DEF Response, Err
  <2>2. ASSUME NEW n \in Int, res = Ok(n)
        PROVE  res \in Response /\ res = [status |-> res.status, result |-> res.result, error |-> res.error]
    <3>1. Wrap(n) \in Ints
      BY WrapIsCongruent
    <3> QED
      BY <2>2, <3>1 DEF Response, Ok
  <2> QED
    BY <1>4, <2>1, <2>2
<1> QED
  BY <1>2, <1>6, LineKeepsResponse DEF req, res

\* What a pipe holds after a line is written to it, or after it is read.
LEMMA PipeWithLine ==
  ASSUME NEW f \in [Generations -> Seq(RequestIds)], NEW g \in Generations, NEW l \in RequestIds
  PROVE  [f EXCEPT ![g] = Append(@, l)] \in [Generations -> Seq(RequestIds)]
<1>1. f[g] \in Seq(RequestIds)
  OBVIOUS
<1>2. Append(f[g], l) \in Seq(RequestIds)
  BY <1>1
<1> QED
  BY <1>2

LEMMA PipeEmptied ==
  ASSUME NEW f \in [Generations -> Seq(RequestIds)], NEW g
  PROVE  [f EXCEPT ![g] = <<>>] \in [Generations -> Seq(RequestIds)]
<1>1. <<>> \in Seq(RequestIds)
  OBVIOUS
<1> QED
  BY <1>1

\* The steps that leave the sequences and the counters alone.
LEMMA TypeOfMoves ==
  ASSUME Sessions,
         \/ (RemoveReq \/ RemoveRes \/ WorkerOpenReq \/ ReadEndOfFile \/ CloseReq \/ CloseRes)
              /\ UNCHANGED kills
         \/ StartWorker
         \/ \E i \in Interfaces :
              /\ \/ OpenResFails(i) \/ ResponseEndOfFile(i) \/ Start(i) \/ SendBrokenPipe(i)
                 \/ Exit(i) \/ Kill(i)
              /\ UNCHANGED kills
  PROVE  TypeOK'
<1>1. /\ UNCHANGED <<kills, gen, reqBuf, resBuf, lines, local>>
      /\ reqPath' \in {0, reqPath} /\ resPath' \in {0, resPath}
  BY DEF RemoveReq, RemoveRes, WorkerOpenReq, ReadEndOfFile, CloseReq, CloseRes, StartWorker,
         OpenResFails, ResponseEndOfFile, Start, SendBrokenPipe, Exit, Kill, pipes
<1>2. worker' \in WorkerPoints
  BY DEF RemoveReq, RemoveRes, WorkerOpenReq, ReadEndOfFile, CloseReq, CloseRes, StartWorker,
         OpenResFails, ResponseEndOfFile, Start, SendBrokenPipe, Exit, Kill,
         WorkerAt, WorkerPoints, Sessions, TypeOK
<1>3. iface' \in [Interfaces -> InterfacePoints]
  BY DEF RemoveReq, RemoveRes, WorkerOpenReq, ReadEndOfFile, CloseReq, CloseRes, StartWorker,
         OpenResFails, ResponseEndOfFile, Start, SendBrokenPipe, Exit, Kill,
         At, Release, InterfacePoints, Sessions, TypeOK
<1> QED
  BY <1>1, <1>2, <1>3 DEF Sessions, TypeOK, local

LEMMA TypeNext == Sessions /\ [Next]_vars => TypeOK'
<1> SUFFICES ASSUME Sessions, [Next]_vars PROVE TypeOK'
  OBVIOUS
<1>a. /\ worker \in WorkerPoints /\ lines \in Seq(RequestIds)
      /\ reqBuf \in [Generations -> Seq(RequestIds)] /\ resBuf \in [Generations -> Seq(RequestIds)]
      /\ iface \in [Interfaces -> InterfacePoints] /\ replies \in [Interfaces -> Seq(RequestIds)]
      /\ answer \in [Interfaces -> RequestIds \cup {NoRequest}]
  BY DEF Sessions, TypeOK
<1>1. CASE MakeReq /\ UNCHANGED kills
  BY <1>1, RoomForGeneration DEF MakeReq, WorkerAt, WorkerPoints, Sessions, TypeOK, local
<1>2. CASE MakeRes /\ UNCHANGED kills
  BY <1>2 DEF MakeRes, WorkerAt, WorkerPoints, Sessions, TypeOK, local
<1>3. CASE WorkerOpenRes /\ UNCHANGED kills
  BY <1>3 DEF WorkerOpenRes, Release, WorkerPoints, InterfacePoints, Sessions, TypeOK, local, pipes
<1>4. CASE ReadRequest /\ UNCHANGED kills
  <2>1. /\ worker' \in WorkerPoints
        /\ lines' \in Seq(RequestIds) /\ reqBuf' \in [Generations -> Seq(RequestIds)]
        /\ UNCHANGED <<kills, gen, reqPath, resPath, resBuf, iface, local>>
    <3>1. gen \in Generations
      BY <1>4, PipesExist DEF ReadRequest, WorkerAt, InSession
    <3>2. reqBuf[gen] \in Seq(RequestIds)
      BY <1>a, <3>1
    <3>3. [reqBuf EXCEPT ![gen] = <<>>] \in [Generations -> Seq(RequestIds)]
      BY <1>a, PipeEmptied
    <3> QED
      BY <1>a, <1>4, <3>2, <3>3 DEF ReadRequest, WorkerAt, WorkerPoints, pipes
  <2> QED
    BY <2>1 DEF Sessions, TypeOK, local
<1>5. CASE Respond /\ UNCHANGED kills
  <2>1. lines # <<>> => Head(lines) \in RequestIds /\ Tail(lines) \in Seq(RequestIds)
    BY DEF Sessions, TypeOK
  <2>2. /\ worker' \in WorkerPoints
        /\ lines' \in Seq(RequestIds) /\ resBuf' \in [Generations -> Seq(RequestIds)]
        /\ UNCHANGED <<kills, gen, reqPath, resPath, reqBuf, iface, local>>
    <3>1. gen \in Generations /\ lines # <<>>
      BY <1>5, PipesExist DEF Respond, WorkerAt, InSession, RespondsToLine, Sessions
    <3>2. [resBuf EXCEPT ![gen] = Append(@, Head(lines))] \in [Generations -> Seq(RequestIds)]
      BY <1>a, <2>1, <3>1, PipeWithLine
    <3> QED
      BY <1>a, <1>5, <2>1, <3>1, <3>2 DEF Respond, WorkerAt, WorkerPoints, pipes
  <2> QED
    BY <2>2 DEF Sessions, TypeOK, local
<1>6. CASE RespondBrokenPipe /\ UNCHANGED kills
  <2>1. /\ worker' \in WorkerPoints /\ lines' \in Seq(RequestIds)
        /\ UNCHANGED <<kills, gen, reqPath, resPath, reqBuf, resBuf, iface, local>>
    BY <1>6 DEF RespondBrokenPipe, WorkerAt, WorkerPoints, RespondsToLine, Sessions, TypeOK, pipes
  <2> QED
    BY <2>1 DEF Sessions, TypeOK, local
<1>7. CASE KillWorker
  BY <1>7, BoundsAssumption DEF KillWorker, WorkerPoints, Sessions, TypeOK, local, pipes
<1>8. ASSUME NEW i \in Interfaces, UNCHANGED kills,
             OpenReqFails(i) \/ OpenReq(i) \/ OpenRes(i) \/ ReadResponse(i) \/ SendRequest(i)
      PROVE  TypeOK'
  <2>1. CASE OpenReqFails(i)
    <3>1. tried[i] + 1 \in 0 .. MaxAttempts
      BY <2>1, BoundsAssumption DEF OpenReqFails, At, Sessions, TypeOK, TriesLeft
    <3> QED
      BY <1>8, <2>1, <3>1 DEF OpenReqFails, At, InterfacePoints, Sessions, TypeOK, pipes
  <2>2. CASE OpenReq(i)
    BY <1>8, <2>2 DEF OpenReq, At, InterfacePoints, WorkerPoints, Sessions, TypeOK, pipes
  <2>3. CASE OpenRes(i)
    <3>1. /\ worker' \in WorkerPoints /\ iface' \in [Interfaces -> InterfacePoints]
          /\ lines' \in Seq(RequestIds) /\ resEnd' \in [Interfaces -> Generations \cup {0}]
          /\ UNCHANGED <<gen, reqPath, resPath, reqBuf, resBuf, tried, reqEnd, replies, asked,
                         answer, printed>>
      <4>1. resPath \in Generations
        BY <2>3 DEF OpenRes, Sessions, TypeOK
      <4>2. resEnd' \in [Interfaces -> Generations \cup {0}]
        BY <2>3, <4>1 DEF OpenRes, Sessions, TypeOK
      <4>3. iface' \in [Interfaces -> InterfacePoints]
        BY <1>a, <2>3 DEF OpenRes, At, InterfacePoints
      <4>4. worker' \in WorkerPoints /\ lines' \in Seq(RequestIds)
        <5>1. <<>> \in Seq(RequestIds)
          OBVIOUS
        <5>2. \/ worker' = "read" /\ lines' = <<>>
              \/ worker' = worker /\ lines' = lines
          BY <2>3 DEF OpenRes
        <5> QED
          BY <1>a, <5>1, <5>2 DEF WorkerPoints
      <4> QED
        BY <2>3, <4>2, <4>3, <4>4 DEF OpenRes, pipes
    <3> QED
      BY <1>8, <3>1 DEF Sessions, TypeOK
  <2>4. CASE ReadResponse(i)
    <3> DEFINE held == IF replies[i] # <<>> THEN replies[i] ELSE resBuf[resEnd[i]]
    <3>1. held \in Seq(RequestIds) /\ held # <<>>
      BY <1>a, <2>4, PipesExist DEF ReadResponse, At
    <3>2. Head(held) \in RequestIds /\ Tail(held) \in Seq(RequestIds)
      BY <3>1
    <3> HIDE DEF held
    <3>3. \A last : Received(Marshal(process_operation_req(OperationOf[Head(held)])), last) \in Response
      BY <3>2, PrintedIsResponse
    <3>4. /\ answer' = [answer EXCEPT ![i] = Head(held)]
          /\ replies' = [replies EXCEPT ![i] = Tail(held)]
          /\ printed' = [printed EXCEPT ![i] =
               Received(Marshal(process_operation_req(OperationOf[Head(held)])), @)]
          /\ iface' = [iface EXCEPT ![i] = "idle"]
          /\ \/ resBuf' = resBuf
             \/ resBuf' = [resBuf EXCEPT ![resEnd[i]] = <<>>]
          /\ UNCHANGED <<worker, pipes, reqBuf, lines, tried, reqEnd, resEnd, asked>>
      BY <2>4 DEF ReadResponse, At, held
    <3>5. printed' \in [Interfaces -> Response]
      BY <3>3, <3>4 DEF Sessions, TypeOK
    <3>6. /\ answer' \in [Interfaces -> RequestIds \cup {NoRequest}]
          /\ replies' \in [Interfaces -> Seq(RequestIds)]
          /\ iface' \in [Interfaces -> InterfacePoints]
          /\ resBuf' \in [Generations -> Seq(RequestIds)]
      <4>1. resBuf' \in [Generations -> Seq(RequestIds)]
        <5>1. [resBuf EXCEPT ![resEnd[i]] = <<>>] \in [Generations -> Seq(RequestIds)]
          BY <1>a, PipeEmptied
        <5> QED
          BY <1>a, <3>4, <5>1
      <4>2. answer' \in [Interfaces -> RequestIds \cup {NoRequest}]
        BY <1>a, <3>2, <3>4
      <4>3. replies' \in [Interfaces -> Seq(RequestIds)]
        BY <1>a, <3>2, <3>4
      <4>4. iface' \in [Interfaces -> InterfacePoints]
        BY <1>a, <3>4 DEF InterfacePoints
      <4> QED
        BY <4>1, <4>2, <4>3, <4>4
    <3> QED
      BY <1>8, <3>4, <3>5, <3>6 DEF Sessions, TypeOK, pipes
  <2>5. CASE SendRequest(i)
    <3>1. asked[i] \in 0 .. MaxRequests /\ asked[i] < MaxRequests
      BY <2>5 DEF SendRequest, Sessions, TypeOK
    <3>2. asked[i] + 1 \in 1 .. MaxRequests
      BY <3>1, BoundsAssumption
    <3>3. <<i, asked[i] + 1>> \in RequestIds
      BY <3>2 DEF RequestIds
    <3>4. /\ asked' \in [Interfaces -> 0 .. MaxRequests]
          /\ iface' \in [Interfaces -> InterfacePoints]
          /\ UNCHANGED <<worker, gen, reqPath, resPath, resBuf, lines, tried, reqEnd, resEnd,
                         replies, answer, printed>>
      BY <2>5, <3>2 DEF SendRequest, At, InterfacePoints, Sessions, TypeOK, pipes
    <3>5. reqBuf' \in [Generations -> Seq(RequestIds)]
      <4>1. reqEnd[i] \in Generations
        BY <2>5, PipesExist DEF SendRequest, At
      <4> QED
        BY <1>a, <2>5, <3>3, <4>1, PipeWithLine DEF SendRequest
    <3> QED
      BY <1>8, <3>4, <3>5 DEF Sessions, TypeOK
  <2> QED
    BY <1>8, <2>1, <2>2, <2>3, <2>4, <2>5
<1>9. CASE UNCHANGED vars
  BY <1>9 DEF Sessions, TypeOK, vars, pipes, local
<1> QED
  BY <1>1, <1>2, <1>3, <1>4, <1>5, <1>6, <1>7, <1>8, <1>9, TypeOfMoves DEF Next, Worker, Interface, User

-----------------------------------------------------------------------------
(***************************************************************************)
(* Sessions is inductive.                                                  *)
(***************************************************************************)

LEMMA OneRunsNext == Sessions /\ [Next]_vars => OneRuns'
<1> SUFFICES ASSUME Sessions, [Next]_vars PROVE OneRuns'
  OBVIOUS
<1>1. iface \in [Interfaces -> InterfacePoints]
  BY DEF Sessions, TypeOK
<1>2. CASE \E i \in Interfaces : Start(i)
  <2>1. PICK i \in Interfaces : Start(i)
    BY <1>2
  <2>2. \A j \in Interfaces \ {i} : ~Running(j) /\ iface'[j] = iface[j]
    BY <1>1, <2>1 DEF Start, At
  <2> QED
    BY <2>2 DEF OneRuns, Running
<1>3. CASE ~ \E i \in Interfaces : Start(i)
  <2>1. \A i \in Interfaces : Running(i)' => Running(i)
    <3>1. CASE UNCHANGED iface
      BY <3>1 DEF Running
    <3>2. CASE WorkerOpenReq \/ WorkerOpenRes
      BY <1>1, <3>2 DEF WorkerOpenReq, WorkerOpenRes, Release, Running
    <3>3. ASSUME NEW i \in Interfaces,
                 \/ OpenReqFails(i) \/ OpenReq(i) \/ OpenResFails(i) \/ OpenRes(i)
                 \/ ReadResponse(i) \/ ResponseEndOfFile(i)
                 \/ SendRequest(i) \/ SendBrokenPipe(i) \/ Exit(i) \/ Kill(i)
          PROVE  \A j \in Interfaces : Running(j)' => Running(j)
      <4>1. Running(i) /\ \A j \in Interfaces \ {i} : iface'[j] = iface[j]
        BY <1>1, <3>3 DEF OpenReqFails, OpenReq, OpenResFails, OpenRes, ReadResponse,
             ResponseEndOfFile, SendRequest, SendBrokenPipe, Exit, Kill, At, Running
      <4> QED
        BY <4>1 DEF Running
    <3> QED
      BY <1>3, <3>1, <3>2, <3>3 DEF Next, Worker, Interface, User, vars, local,
           RemoveReq, RemoveRes, MakeReq, MakeRes, ReadRequest, ReadEndOfFile, Respond,
           RespondBrokenPipe, CloseReq, CloseRes, KillWorker, StartWorker
  <2> QED
    BY <2>1 DEF Sessions, OneRuns
<1> QED
  BY <1>2, <1>3

\* What an interface does to the worker and to itself.
LEMMA InterfaceSteps ==
  ASSUME Sessions, [Next]_vars, NEW i \in Interfaces, Interface(i) \/ User(i)
  PROVE  /\ UNCHANGED <<kills, gen, reqPath, resPath>>
         /\ \/ worker' = worker
            \/ worker = "awaitWriter" /\ worker' = "openRes" /\ reqEnd'[i] = gen
            \/ worker = "awaitReader" /\ worker' = "read" /\ resEnd'[i] = gen /\ lines' = <<>>
         /\ \A j \in Interfaces \ {i} :
              /\ iface'[j] = iface[j] /\ tried'[j] = tried[j]
              /\ reqEnd'[j] = reqEnd[j] /\ resEnd'[j] = resEnd[j]
<1>1. /\ iface \in [Interfaces -> InterfacePoints]
      /\ tried \in [Interfaces -> 0 .. MaxAttempts]
      /\ reqEnd \in [Interfaces -> Generations \cup {0}]
      /\ resEnd \in [Interfaces -> Generations \cup {0}]
  BY DEF Sessions, TypeOK
<1>2. CASE OpenReq(i)
  BY <1>1, <1>2 DEF OpenReq, At, Interface, User, pipes
<1>3. CASE OpenRes(i)
  BY <1>1, <1>3 DEF OpenRes, At, Interface, User, pipes
<1>4. CASE ~OpenReq(i) /\ ~OpenRes(i)
  BY <1>1, <1>4 DEF Interface, User, OpenReqFails, OpenResFails, ReadResponse, ResponseEndOfFile,
       Start, SendRequest, SendBrokenPipe, Exit, Kill, At, pipes, local
<1> QED
  BY <1>2, <1>3, <1>4

LEMMA NamesLeadNext == Sessions /\ [Next]_vars => NamesLead'
<1> SUFFICES ASSUME Sessions, [Next]_vars PROVE NamesLead'
  OBVIOUS
<1>1. gen \in Nat /\ NamesLead /\ worker \in WorkerPoints
  BY PipesExist DEF Sessions, TypeOK
<1> USE DEF NamesLead, Opening, Making, InSession
<1>2. CASE \E i \in Interfaces : Interface(i) \/ User(i)
  <2>1. PICK i \in Interfaces : Interface(i) \/ User(i)
    BY <1>2
  <2> QED
    BY <1>1, <2>1, InterfaceSteps
<1>3. CASE RemoveReq \/ RemoveRes \/ MakeReq \/ MakeRes
  BY <1>1, <1>3 DEF RemoveReq, RemoveRes, MakeReq, MakeRes, WorkerAt
<1>4. CASE WorkerOpenReq \/ WorkerOpenRes
  BY <1>1, <1>4 DEF WorkerOpenReq, WorkerOpenRes, pipes
<1>5. CASE ReadRequest \/ ReadEndOfFile \/ Respond \/ RespondBrokenPipe \/ CloseReq \/ CloseRes
  BY <1>1, <1>5 DEF ReadRequest, ReadEndOfFile, Respond, RespondBrokenPipe, CloseReq, CloseRes,
       WorkerAt, pipes
<1>6. CASE KillWorker \/ StartWorker
  BY <1>1, <1>6 DEF KillWorker, StartWorker, WorkerAt, pipes
<1>7. CASE UNCHANGED vars
  BY <1>1, <1>7 DEF vars, pipes
<1> QED
  BY <1>2, <1>3, <1>4, <1>5, <1>6, <1>7 DEF Next, Worker

LEMMA EndsOrderedNext == Sessions /\ [Next]_vars => EndsOrdered'
<1> SUFFICES ASSUME Sessions, [Next]_vars, NEW i \in Interfaces PROVE EndsOrdered!(i)'
  BY DEF EndsOrdered
<1>1. /\ gen \in Nat /\ iface \in [Interfaces -> InterfacePoints] /\ iface[i] \in InterfacePoints
      /\ reqEnd \in [Interfaces -> Generations \cup {0}]
      /\ resEnd \in [Interfaces -> Generations \cup {0}]
      /\ EndsOrdered!(i) /\ NamesLead
  BY PipesExist DEF Sessions, TypeOK, EndsOrdered
<1> USE DEF Opening, Making
<1>2. CASE OpenReq(i)
  BY <1>1, <1>2 DEF OpenReq, At, NamesLead, pipes
<1>3. CASE OpenRes(i)
  <2>1. /\ resPath = gen /\ gen > 0 /\ iface[i] = "openRes"
        /\ resEnd'[i] = gen /\ UNCHANGED <<gen, reqEnd>>
        /\ iface'[i] = IF WorkerWrites(gen) THEN "idle" ELSE "awaitResponses"
    BY <1>1, <1>3 DEF OpenRes, At, NamesLead, pipes
  <2>2. WorkerWrites(gen) => worker' \notin Opening
    BY <1>1, <1>3, <2>1 DEF OpenRes, WorkerWrites
  <2> QED
    BY <1>1, <2>1, <2>2
<1>4. CASE SendRequest(i)
  <2>1. reqEnd[i] = gen
    BY <1>4 DEF SendRequest, WorkerReads
  <2>2. resEnd[i] = reqEnd[i]
    BY <1>1, <1>4, <2>1 DEF SendRequest, At
  <2> QED
    BY <1>1, <1>4, <2>2 DEF SendRequest, At, pipes
<1>5. CASE \/ OpenReqFails(i) \/ OpenResFails(i) \/ ReadResponse(i) \/ ResponseEndOfFile(i)
           \/ Start(i) \/ SendBrokenPipe(i) \/ Exit(i) \/ Kill(i)
  BY <1>1, <1>5 DEF OpenReqFails, OpenResFails, ReadResponse, ResponseEndOfFile,
       Start, SendBrokenPipe, Exit, Kill, At, pipes, local
<1>6. ASSUME NEW j \in Interfaces \ {i}, Interface(j) \/ User(j)
      PROVE  EndsOrdered!(i)'
  <2>1. /\ gen' = gen /\ iface'[i] = iface[i] /\ reqEnd'[i] = reqEnd[i] /\ resEnd'[i] = resEnd[i]
        /\ \/ worker' = worker
           \/ worker = "awaitWriter" /\ worker' = "openRes"
           \/ worker = "awaitReader" /\ worker' = "read"
    BY <1>6, InterfaceSteps
  <2> QED
    BY <1>1, <2>1
<1>7. CASE MakeReq
  BY <1>1, <1>7 DEF MakeReq, WorkerAt, local
<1>8. CASE WorkerOpenReq
  BY <1>1, <1>8 DEF WorkerOpenReq, Release, pipes, local
<1>9. CASE WorkerOpenRes
  <2>1. iface[i] = "awaitResponses" /\ resEnd[i] = gen => worker' = "read"
    BY <1>9 DEF WorkerOpenRes, Readers, Running
  <2> QED
    BY <1>1, <1>9, <2>1 DEF WorkerOpenRes, Release, pipes, local
<1>10. CASE RemoveReq \/ RemoveRes \/ MakeRes
  BY <1>1, <1>10 DEF RemoveReq, RemoveRes, MakeRes, WorkerAt, local
<1>11. CASE \/ ReadRequest \/ ReadEndOfFile \/ Respond \/ RespondBrokenPipe \/ CloseReq \/ CloseRes
            \/ KillWorker \/ StartWorker
  BY <1>1, <1>11 DEF ReadRequest, ReadEndOfFile, Respond, RespondBrokenPipe, CloseReq, CloseRes,
       KillWorker, StartWorker, WorkerAt, pipes, local
<1>12. CASE UNCHANGED vars
  BY <1>1, <1>12 DEF vars, pipes, local
<1> QED
  BY <1>2, <1>3, <1>4, <1>5, <1>6, <1>7, <1>8, <1>9, <1>10, <1>11, <1>12
  DEF Next, Worker, Interface, User

\* Another generation is wasted only by a kill.
LEMMA KillsWasteNext == Sessions /\ [Next]_vars => KillsWaste'
<1> SUFFICES ASSUME Sessions, [Next]_vars PROVE KillsWaste'
  OBVIOUS
<1>1. /\ gen \in Nat /\ kills \in Nat /\ worker \in WorkerPoints
      /\ reqEnd \in [Interfaces -> Generations \cup {0}]
      /\ \A i \in Interfaces : reqEnd[i] \in 0 .. gen
      /\ KillsWaste
  BY PipesExist, BoundsAssumption DEF Sessions, TypeOK, EndsOrdered
<1>2. IsFiniteSet(Wasted) /\ Cardinality(Wasted) <= kills /\ Cardinality(Wasted) \in Nat
  <2>1. IsFiniteSet(1 .. gen)
    BY <1>1, IntervalSize, Zenon
  <2>2. IsFiniteSet(Wasted)
    BY <2>1, FS_Subset DEF Wasted
  <2> QED
    BY <1>1, <2>2, FS_CardinalityType DEF KillsWaste
<1>3. ASSUME Wasted' \subseteq Wasted, kills' = kills
      PROVE  Cardinality(Wasted') <= kills'
  <2>1. Cardinality(Wasted') <= Cardinality(Wasted) /\ Cardinality(Wasted') \in Nat
    BY <1>2, <1>3, FS_Subset, FS_CardinalityType
  <2> QED
    BY <1>1, <1>2, <1>3, <2>1
<1>4. ASSUME NEW i \in Interfaces, Interface(i) \/ User(i)
      PROVE  KillsWaste'
  <2>1. /\ kills' = kills /\ gen' = gen
        /\ \/ worker' = worker
           \/ worker = "awaitWriter" /\ worker' = "openRes" /\ reqEnd'[i] = gen
           \/ worker = "awaitReader" /\ worker' = "read"
        /\ \A j \in Interfaces \ {i} : reqEnd'[j] = reqEnd[j]
    BY <1>4, InterfaceSteps
  <2>2. reqEnd'[i] = reqEnd[i] \/ reqEnd[i] = 0
    <3>1. OpenReq(i) => reqEnd[i] = 0
      BY DEF OpenReq, At, Sessions, EndsOrdered
    <3> QED
      BY <1>1, <1>4, <3>1 DEF Interface, User, OpenReqFails, OpenResFails, OpenRes, ReadResponse,
           ResponseEndOfFile, Start, SendRequest, SendBrokenPipe, Exit, Kill, local
  <2>3. Opened \ {0} \subseteq Opened'
    BY <2>1, <2>2 DEF Opened
  <2>4. Wasted' \subseteq Wasted
    <3> SUFFICES ASSUME NEW g \in Wasted' PROVE g \in Wasted
      OBVIOUS
    <3>1. g \in 1 .. gen /\ g \notin Opened' /\ ~(g = gen /\ worker' \in Making)
      BY <2>1 DEF Wasted
    <3>2. g \notin Opened
      BY <1>1, <2>3, <3>1
    <3>3. g = gen /\ worker \in Making => g \in Opened'
      BY <2>1, <3>1 DEF Opened, Making
    <3> QED
      BY <3>1, <3>2, <3>3 DEF Wasted
  <2>5. worker' \in InSession => gen' \in Opened'
    <3>1. worker \in InSession => gen \in Opened \ {0}
      BY <1>1 DEF KillsWaste, Sessions, NamesLead
    <3> QED
      BY <2>1, <2>3, <3>1 DEF Opened, InSession
  <2> QED
    BY <1>3, <2>1, <2>4, <2>5 DEF KillsWaste
<1>5. CASE MakeReq /\ UNCHANGED kills
  <2>1. gen' = gen + 1 /\ worker = "makeReq" /\ worker' = "makeRes" /\ Opened' = Opened
    BY <1>5 DEF MakeReq, WorkerAt, Opened, local
  <2>2. Wasted' \subseteq Wasted
    BY <1>1, <2>1 DEF Wasted, Making
  <2> QED
    BY <1>3, <1>5, <2>1, <2>2 DEF KillsWaste, InSession
<1>6. CASE (WorkerOpenReq \/ WorkerOpenRes) /\ UNCHANGED kills
  <2>1. gen' = gen /\ Opened' = Opened
    BY <1>6 DEF WorkerOpenReq, WorkerOpenRes, Opened, local, pipes
  <2>2. Writers(gen) # {} => gen \in Opened
    BY DEF Writers, Opened
  <2>3. worker' \in InSession => gen \in Opened
    BY <1>1, <1>6, <2>2 DEF WorkerOpenReq, WorkerOpenRes, InSession, KillsWaste
  <2>4. Wasted' \subseteq Wasted
    BY <1>6, <2>1, <2>3 DEF WorkerOpenReq, WorkerOpenRes, Wasted, Making, InSession
  <2> QED
    BY <1>3, <1>6, <2>1, <2>3, <2>4 DEF KillsWaste
<1>7. CASE \/ (RemoveReq \/ RemoveRes \/ MakeRes \/ ReadRequest \/ ReadEndOfFile \/ Respond
                 \/ RespondBrokenPipe \/ CloseReq \/ CloseRes) /\ UNCHANGED kills
           \/ StartWorker \/ UNCHANGED vars
  <2>1. kills' = kills /\ gen' = gen /\ Opened' = Opened
    BY <1>7 DEF RemoveReq, RemoveRes, MakeRes, ReadRequest, ReadEndOfFile, Respond,
         RespondBrokenPipe, CloseReq, CloseRes, StartWorker, vars, Opened, local, pipes
  <2>2. /\ worker' \in InSession => worker \in InSession
        /\ worker \in Making => worker' \in Making
    BY <1>7 DEF RemoveReq, RemoveRes, MakeRes, ReadRequest, ReadEndOfFile, Respond,
         RespondBrokenPipe, CloseReq, CloseRes, StartWorker, vars, WorkerAt, InSession, Making
  <2>3. Wasted' \subseteq Wasted
    BY <2>1, <2>2 DEF Wasted
  <2> QED
    BY <1>1, <1>3, <2>1, <2>2, <2>3 DEF KillsWaste
<1>8. CASE KillWorker
  <2>1. kills' = kills + 1 /\ gen' = gen /\ Opened' = Opened /\ worker' = "down"
    BY <1>8 DEF KillWorker, Opened, local, pipes
  <2>2. Wasted' \subseteq Wasted \cup {gen}
    BY <2>1 DEF Wasted
  <2>3. /\ IsFiniteSet(Wasted \cup {gen})
        /\ Cardinality(Wasted \cup {gen}) <= Cardinality(Wasted) + 1
    BY <1>2, FS_AddElement
  <2>4. Cardinality(Wasted') <= Cardinality(Wasted \cup {gen}) /\ IsFiniteSet(Wasted')
    BY <2>2, <2>3, FS_Subset
  <2>5. Cardinality(Wasted') \in Nat /\ Cardinality(Wasted \cup {gen}) \in Nat
    BY <2>3, <2>4, FS_CardinalityType
  <2> QED
    BY <1>1, <1>2, <2>1, <2>3, <2>4, <2>5 DEF KillsWaste, InSession
<1> QED
  BY <1>4, <1>5, <1>6, <1>7, <1>8 DEF Next, Worker
LEMMA TriesLeftNext == Sessions /\ [Next]_vars => TriesLeft'
<1> SUFFICES ASSUME Sessions, [Next]_vars, NEW i \in Interfaces,
                    iface'[i] \in {"new", "openReq"}
             PROVE  tried'[i] < MaxAttempts
  BY DEF TriesLeft
<1>1. /\ iface \in [Interfaces -> InterfacePoints]
      /\ tried \in [Interfaces -> 0 .. MaxAttempts]
      /\ MaxAttempts \in Nat
      /\ iface[i] \in {"new", "openReq"} => tried[i] < MaxAttempts
  BY BoundsAssumption DEF Sessions, TypeOK, TriesLeft
<1>2. CASE \E j \in Interfaces : Interface(j) \/ User(j)
  <2>1. PICK j \in Interfaces : Interface(j) \/ User(j)
    BY <1>2
  <2>2. CASE j # i
    BY <1>1, <2>1, <2>2, InterfaceSteps
  <2>3. CASE j = i
    BY <1>1, <2>1, <2>3 DEF Interface, User, OpenReqFails, OpenReq, OpenResFails, OpenRes, ReadResponse,
         ResponseEndOfFile, Start, SendRequest, SendBrokenPipe, Exit, Kill, Running, At, local
  <2> QED
    BY <2>2, <2>3
<1>3. CASE WorkerOpenReq \/ WorkerOpenRes
  BY <1>1, <1>3 DEF WorkerOpenReq, WorkerOpenRes, Release, local
<1>4. CASE \/ RemoveReq \/ RemoveRes \/ MakeReq \/ MakeRes \/ ReadRequest \/ ReadEndOfFile \/ Respond
           \/ RespondBrokenPipe \/ CloseReq \/ CloseRes \/ KillWorker \/ StartWorker \/ UNCHANGED vars
  BY <1>1, <1>4 DEF RemoveReq, RemoveRes, MakeReq, MakeRes, ReadRequest, ReadEndOfFile, Respond,
       RespondBrokenPipe, CloseReq, CloseRes, KillWorker, StartWorker, vars, local
<1> QED
  BY <1>2, <1>3, <1>4 DEF Next, Worker

LEMMA RespondsToLineNext == Sessions /\ [Next]_vars => RespondsToLine'
<1> SUFFICES ASSUME Sessions, [Next]_vars, worker' = "respond" PROVE lines' # <<>>
  BY DEF RespondsToLine
<1>1. CASE ReadRequest
  BY <1>1 DEF ReadRequest
<1>2. CASE ~ReadRequest
  <2>1. worker = "respond" /\ lines' = lines
    BY <1>2 DEF Next, Worker, Interface, User, OpenReqFails, OpenReq, OpenResFails, OpenRes,
         ReadResponse, ResponseEndOfFile, Start, SendRequest, SendBrokenPipe, Exit, Kill,
         RemoveReq, RemoveRes, MakeReq, MakeRes, WorkerOpenReq, WorkerOpenRes, ReadEndOfFile,
         Respond, RespondBrokenPipe, CloseReq, CloseRes, KillWorker, StartWorker, vars, WorkerAt
  <2> QED
    BY <2>1 DEF Sessions, RespondsToLine
<1> QED
  BY <1>1, <1>2

LEMMA SessionsNext == Sessions /\ [Next]_vars => Sessions'
<1> QED
  BY TypeNext, OneRunsNext, NamesLeadNext, EndsOrderedNext, KillsWasteNext, TriesLeftNext,
     RespondsToLineNext DEF Sessions

\* Every variable keeps its type, whatever is killed and when: in particular the
\* worker never runs out of the Runs + 1 + WorkerKills pairs of pipes (create_pipes).
THEOREM FifoTypeCorrect == Spec => []TypeOK
<1>1. Sessions => TypeOK
  BY DEF Sessions
<1> QED
  BY <1>1, SessionsInit, SessionsNext, PTL DEF Spec

-----------------------------------------------------------------------------
(***************************************************************************)
(* The result printed.                                                     *)
(***************************************************************************)

\* Only ReadResponse prints.
LEMMA PrintsResultNext == Sessions /\ PrintsResult /\ [Next]_vars => PrintsResult'
<1> SUFFICES ASSUME Sessions, PrintsResult, [Next]_vars, NEW i \in Interfaces,
                    answer'[i] # NoRequest
             PROVE  IsAnswer(OperationOf[answer'[i]], printed'[i])
  BY DEF PrintsResult
<1>1. CASE \E j \in Interfaces : ReadResponse(j)
  <2>1. PICK j \in Interfaces : ReadResponse(j)
    BY <1>1
  <2> DEFINE held == IF replies[j] # <<>> THEN replies[j] ELSE resBuf[resEnd[j]]
  <2>2. held # <<>> /\ held \in Seq(RequestIds)
    BY <2>1, PipesExist DEF ReadResponse, At, Sessions, TypeOK
  <2>3. Head(held) \in RequestIds
    BY <2>2
  <2> HIDE DEF held
  <2>4. /\ answer' = [answer EXCEPT ![j] = Head(held)]
        /\ printed' = [printed EXCEPT ![j] =
             Received(Marshal(process_operation_req(OperationOf[Head(held)])), @)]
    BY <2>1 DEF ReadResponse, held
  <2>5. IsAnswer(OperationOf[Head(held)],
                 Received(Marshal(process_operation_req(OperationOf[Head(held)])), printed[j]))
    BY <2>3, PrintedIsResponse
  <2>6. CASE i = j
    BY <2>4, <2>5, <2>6 DEF Sessions, TypeOK
  <2>7. CASE i # j
    BY <2>4, <2>7 DEF Sessions, TypeOK, PrintsResult
  <2> QED
    BY <2>6, <2>7
<1>2. CASE ~ \E j \in Interfaces : ReadResponse(j)
  <2>1. UNCHANGED <<answer, printed>>
    BY <1>2 DEF Next, Worker, Interface, User, OpenReqFails, OpenReq, OpenResFails, OpenRes,
         ResponseEndOfFile, Start, SendRequest, SendBrokenPipe, Exit, Kill,
         RemoveReq, RemoveRes, MakeReq, MakeRes, WorkerOpenReq, WorkerOpenRes, ReadRequest,
         ReadEndOfFile, Respond, RespondBrokenPipe, CloseReq, CloseRes, KillWorker, StartWorker,
         vars, local
  <2> QED
    BY <2>1 DEF PrintsResult
<1> QED
  BY <1>1, <1>2

\* What an interface prints is the result of the operation in the request the answer
\* belongs to, for every width of int and every operation: process_operation_req, the
\* fields json.Marshal omits and the variable json.Unmarshal fills.
THEOREM FifoPrintsResult == Spec => []PrintsResult
<1>1. Init => Sessions /\ PrintsResult
  BY SessionsInit DEF Init, PrintsResult
<1>2. Sessions /\ PrintsResult /\ [Next]_vars => Sessions' /\ PrintsResult'
  BY SessionsNext, PrintsResultNext
<1> QED
  BY <1>1, <1>2, PTL DEF Spec

-----------------------------------------------------------------------------
(***************************************************************************)
(* The answer printed.                                                     *)
(***************************************************************************)


\* A line keeps its place when as many answers are owed as lines before it go, or more.
LEMMA DueLess ==
  ASSUME NEW sent, IsFiniteSet(sent), NEW s, Len(s) \in Nat,
         NEW owed \in Nat, NEW d \in Nat, Due(sent, owed, s, d),
         NEW less \in Nat, NEW e \in Nat, owed + e <= less + d
  PROVE  Due(sent, less, s, e)
<1> SUFFICES ASSUME NEW n \in 1 .. Len(s)
             PROVE  /\ s[n] \in sent
                    /\ Cardinality(Behind(sent, s[n])) + n + e <= less
  BY DEF Due
<1>1. s[n] \in sent /\ Cardinality(Behind(sent, s[n])) + n + d <= owed
  BY DEF Due
<1>2. Cardinality(Behind(sent, s[n])) \in Nat
  BY FS_Subset, FS_CardinalityType DEF Behind
<1> QED
  BY <1>1, <1>2

LEMMA DueHead ==
  ASSUME NEW sent, IsFiniteSet(sent), NEW S, NEW s \in Seq(S), s # <<>>,
         NEW owed \in Nat, NEW d \in Nat, Due(sent, owed, s, d)
  PROVE  /\ Head(s) \in sent
         /\ Cardinality(Behind(sent, Head(s))) + 1 + d <= owed
         /\ Due(sent, owed, Tail(s), d + 1)
<1>1. /\ 1 \in 1 .. Len(s) /\ Head(s) = s[1] /\ Len(Tail(s)) = Len(s) - 1
      /\ \A n \in 1 .. Len(Tail(s)) : Tail(s)[n] = s[n + 1] /\ n + 1 \in 1 .. Len(s)
  OBVIOUS
<1>2. Head(s) \in sent /\ Cardinality(Behind(sent, Head(s))) + 1 + d <= owed
  BY <1>1 DEF Due
<1>3. ASSUME NEW n \in 1 .. Len(Tail(s))
      PROVE  /\ Tail(s)[n] \in sent
             /\ Cardinality(Behind(sent, Tail(s)[n])) + n + (d + 1) <= owed
  <2>1. s[n + 1] \in sent /\ Cardinality(Behind(sent, s[n + 1])) + (n + 1) + d <= owed
    BY <1>1 DEF Due
  <2>2. Cardinality(Behind(sent, s[n + 1])) \in Nat
    BY FS_Subset, FS_CardinalityType DEF Behind
  <2> QED
    BY <1>1, <2>1, <2>2
<1> QED
  BY <1>2, <1>3 DEF Due

LEMMA DueAppend ==
  ASSUME NEW sent, NEW S, NEW s \in Seq(S), NEW a \in S, NEW owed, NEW d \in Nat,
         Due(sent, owed, s, d),
         a \in sent, Cardinality(Behind(sent, a)) + (Len(s) + 1) + d <= owed
  PROVE  Due(sent, owed, Append(s, a), d)
<1> SUFFICES ASSUME NEW n \in 1 .. Len(Append(s, a))
             PROVE  /\ Append(s, a)[n] \in sent
                    /\ Cardinality(Behind(sent, Append(s, a)[n])) + n + d <= owed
  BY DEF Due
<1>1. \/ n \in 1 .. Len(s) /\ Append(s, a)[n] = s[n]
      \/ n = Len(s) + 1 /\ Append(s, a)[n] = a
  OBVIOUS
<1> QED
  BY <1>1 DEF Due

\* A request more is an answer owed more, and stands behind those before it.
LEMMA DueSent ==
  ASSUME NEW sent, IsFiniteSet(sent), NEW s, Len(s) \in Nat,
         NEW owed \in Nat, NEW d \in Nat, Due(sent, owed, s, d), NEW r
  PROVE  Due(sent \cup {r}, owed + 1, s, d)
<1> SUFFICES ASSUME NEW n \in 1 .. Len(s)
             PROVE  /\ s[n] \in sent
                    /\ Cardinality(Behind(sent \cup {r}, s[n])) + n + d <= owed + 1
  BY DEF Due
<1> DEFINE behind == Behind(sent, s[n])
           more   == Behind(sent \cup {r}, s[n])
<1>1. s[n] \in sent /\ Cardinality(behind) + n + d <= owed
  BY DEF Due
<1>2. IsFiniteSet(behind) /\ Cardinality(behind) \in Nat
  BY FS_Subset, FS_CardinalityType DEF Behind
<1>3. more \subseteq behind \cup {r}
  BY DEF Behind
<1> HIDE DEF behind, more
<1>4. IsFiniteSet(behind \cup {r}) /\ Cardinality(behind \cup {r}) <= Cardinality(behind) + 1
  <2>1. /\ IsFiniteSet(behind \cup {r})
        /\ Cardinality(behind \cup {r})
             = IF r \in behind THEN Cardinality(behind) ELSE Cardinality(behind) + 1
    BY <1>2, FS_AddElement, Zenon
  <2> QED
    BY <1>2, <2>1
<1>5. /\ Cardinality(more) \in Nat /\ Cardinality(more) <= Cardinality(behind \cup {r})
      /\ Cardinality(behind \cup {r}) \in Nat
  BY <1>3, <1>4, FS_Subset, FS_CardinalityType
<1>6. Cardinality(more) + n + d <= owed + 1
  BY <1>1, <1>2, <1>4, <1>5
<1> QED
  BY <1>1, <1>6 DEF more

\* There are no more lines than answers owed.
LEMMA DueRoom ==
  ASSUME NEW sent, IsFiniteSet(sent), NEW S, NEW s \in Seq(S),
         NEW owed \in Nat, NEW d \in Nat, Due(sent, owed, s, d), d <= owed
  PROVE  Len(s) + d <= owed
<1>1. CASE s = <<>>
  BY <1>1
<1>2. CASE s # <<>>
  <2>1. Len(s) \in 1 .. Len(s)
    BY <1>2
  <2>2. Cardinality(Behind(sent, s[Len(s)])) + Len(s) + d <= owed
    BY <2>1 DEF Due
  <2>3. Cardinality(Behind(sent, s[Len(s)])) \in Nat
    BY FS_Subset, FS_CardinalityType DEF Behind
  <2> QED
    BY <2>1, <2>2, <2>3
<1> QED
  BY <1>1, <1>2

LEMMA NoLineDue == \A sent, owed, d : Due(sent, owed, <<>>, d)
BY DEF Due

\* All these sets are finite.
LEMMA SomeInterfaces ==
  ASSUME NEW S, S \subseteq Interfaces
  PROVE  IsFiniteSet(S) /\ Cardinality(S) \in Nat
<1>1. IsFiniteSet(Interfaces)
  BY BoundsAssumption, IntervalSize, Zenon DEF Interfaces
<1> QED
  BY <1>1, FS_Subset, FS_CardinalityType

LEMMA FiniteSent ==
  \A g : IsFiniteSet(SentOn(g)) /\ Cardinality(Unanswered(g)) \in Nat /\ IsFiniteSet(Unanswered(g))
<1>1. IsFiniteSet(Interfaces) /\ IsFiniteSet(1 .. MaxRequests)
  BY SomeInterfaces, BoundsAssumption, IntervalSize
<1>2. IsFiniteSet(RequestIds)
  BY <1>1, FS_Product DEF RequestIds
<1> QED
  BY <1>2, SomeInterfaces, FS_Subset DEF SentOn, Unanswered

LEMMA LinesInit == Init => Lines
<1> SUFFICES ASSUME Init PROVE Lines
  OBVIOUS
<1>1. NewPipesEmpty /\ BeforeSession /\ StartOrder /\ AnswersInTurn
  BY DEF Init, NewPipesEmpty, BeforeSession, StartOrder, AnswersInTurn, Running
<1>2. LinesDue
  BY NoLineDue DEF Init, LinesDue, AnswersDue, Carries, DueOn, Reads, Live
<1> QED
  BY <1>1, <1>2, SessionsInit DEF Lines

\* The steps that write no line.
LEMMA NothingWritten ==
  ASSUME Sessions, [Next]_vars, ~Respond, \A i \in Interfaces : ~SendRequest(i)
  PROVE  \A g \in Generations :
           /\ reqBuf'[g] \in {reqBuf[g], <<>>}
           /\ resBuf'[g] \in {resBuf[g], <<>>}
<1>1. reqBuf \in [Generations -> Seq(RequestIds)] /\ resBuf \in [Generations -> Seq(RequestIds)]
  BY DEF Sessions, TypeOK
<1>2. CASE ReadRequest
  BY <1>1, <1>2 DEF ReadRequest
<1>3. CASE \E i \in Interfaces : ReadResponse(i)
  BY <1>1, <1>3 DEF ReadResponse
<1>4. CASE ~ReadRequest /\ \A i \in Interfaces : ~ReadResponse(i)
  <2>1. UNCHANGED <<reqBuf, resBuf>>
    BY <1>4 DEF Next, Worker, Interface, User, OpenReqFails, OpenReq, OpenResFails, OpenRes,
         ResponseEndOfFile, Start, SendBrokenPipe, Exit, Kill,
         RemoveReq, RemoveRes, MakeReq, MakeRes, WorkerOpenReq, WorkerOpenRes,
         ReadEndOfFile, RespondBrokenPipe, CloseReq, CloseRes, KillWorker, StartWorker, vars
  <2> QED
    BY <2>1
<1> QED
  BY <1>2, <1>3, <1>4

\* A request can only be sent in a session that has begun, on its pipes.
LEMMA SendsInSession ==
  ASSUME Sessions, NEW i \in Interfaces, SendRequest(i)
  PROVE  /\ gen \in Generations /\ reqEnd[i] = gen /\ resEnd[i] = gen
         /\ worker \in {"read", "respond", "closeReq"}
         /\ iface[i] = "idle"
<1>1. iface[i] = "idle" /\ WorkerReads(reqEnd[i])
  BY DEF SendRequest, At
<1>2. /\ gen \in Nat /\ reqEnd[i] \in Generations /\ EndsOrdered!(i)
  BY <1>1, PipesExist DEF Sessions, EndsOrdered
<1> QED
  BY <1>1, <1>2 DEF WorkerReads, Opening, Making

\* The worker makes new pipes and opens them; nothing else comes before Opening ends.
LEMMA NewPipesEmptyNext == Lines /\ [Next]_vars => NewPipesEmpty'
<1> SUFFICES ASSUME Lines, [Next]_vars, NEW g \in Generations,
                    g > gen' \/ (g = gen' /\ worker' \in Opening)
             PROVE  reqBuf'[g] = <<>> /\ resBuf'[g] = <<>>
  BY DEF NewPipesEmpty
<1>1. Sessions /\ gen \in Nat /\ g \in Nat /\ NewPipesEmpty!(g)
  BY PipesExist DEF Lines, NewPipesEmpty, Generations
<1>2. g > gen \/ (g = gen /\ worker \in Opening)
  <2>1. CASE \E i \in Interfaces : Interface(i) \/ User(i)
    BY <1>1, <2>1, InterfaceSteps DEF Opening, Making
  <2>2. CASE MakeReq
    BY <1>1, <2>2 DEF MakeReq
  <2>3. CASE ~MakeReq /\ (Worker \/ KillWorker \/ StartWorker \/ UNCHANGED vars)
    <3>1. gen' = gen /\ (worker' \in Opening => worker \in Opening)
      BY <2>3 DEF Worker, KillWorker, StartWorker, RemoveReq, RemoveRes, MakeRes, WorkerOpenReq,
           WorkerOpenRes, ReadRequest, ReadEndOfFile, Respond, RespondBrokenPipe, CloseReq, CloseRes,
           WorkerAt, Opening, Making, vars, pipes
    <3> QED
      BY <1>1, <3>1
  <2> QED
    BY <2>1, <2>2, <2>3 DEF Next
<1>3. reqBuf[g] = <<>> /\ resBuf[g] = <<>>
  BY <1>1, <1>2
<1>4. CASE Respond
  <2>1. g # gen
    BY <1>1, <1>2, <1>4 DEF Respond, WorkerAt, Opening, Making
  <2> QED
    BY <1>1, <1>3, <1>4, <2>1 DEF Respond, Sessions, TypeOK
<1>5. ASSUME NEW i \in Interfaces, SendRequest(i)
      PROVE  reqBuf'[g] = <<>> /\ resBuf'[g] = <<>>
  <2>1. g # gen /\ reqEnd[i] = gen
    BY <1>1, <1>2, <1>5, SendsInSession DEF Opening, Making
  <2> QED
    BY <1>1, <1>3, <1>5, <2>1 DEF SendRequest, Sessions, TypeOK
<1>6. CASE ~Respond /\ \A i \in Interfaces : ~SendRequest(i)
  BY <1>1, <1>3, <1>6, NothingWritten
<1> QED
  BY <1>4, <1>5, <1>6

\* Only SendRequest asks and only ReadResponse answers.
LEMMA AsksAndAnswers ==
  ASSUME Sessions, [Next]_vars
  PROVE  /\ (\A i \in Interfaces : ~SendRequest(i)) => asked' = asked
         /\ (\A i \in Interfaces : ~ReadResponse(i)) => UNCHANGED <<answer, replies>>
BY DEF Next, Worker, Interface, User, OpenReqFails, OpenReq, OpenResFails, OpenRes,
     ReadResponse, ResponseEndOfFile, Start, SendRequest, SendBrokenPipe, Exit, Kill,
     RemoveReq, RemoveRes, MakeReq, MakeRes, WorkerOpenReq, WorkerOpenRes, ReadRequest,
     ReadEndOfFile, Respond, RespondBrokenPipe, CloseReq, CloseRes, KillWorker, StartWorker,
     vars, local

\* What the steps but these three do to the place of an interface.
LEMMA PlacesChange ==
  ASSUME Sessions, [Next]_vars, NEW i \in Interfaces,
         ~SendRequest(i), ~ReadResponse(i), ~ResponseEndOfFile(i)
  PROVE  \/ iface'[i] = iface[i]
         \/ iface[i] = "new" /\ iface'[i] = "openReq" /\ Start(i)
         \/ iface[i] = "openReq" /\ iface'[i] \in {"awaitRequests", "openRes", "exited"}
         \/ iface[i] = "awaitRequests" /\ iface'[i] = "openRes"
         \/ iface[i] = "openRes" /\ iface'[i] \in {"awaitResponses", "idle", "exited"}
         \/ iface[i] = "awaitResponses" /\ iface'[i] = "idle"
         \/ iface[i] = "idle" /\ iface'[i] = "exited"
         \/ iface[i] = "waiting" /\ iface'[i] = "killedWaiting"
         \/ Running(i) /\ iface[i] # "waiting" /\ iface'[i] = "killed"
<1>1. iface \in [Interfaces -> InterfacePoints]
  BY DEF Sessions, TypeOK
<1>2. ASSUME NEW j \in Interfaces \ {i}, Interface(j) \/ User(j) PROVE iface'[i] = iface[i]
  BY <1>2, InterfaceSteps
<1>3. CASE Interface(i) \/ User(i)
  BY <1>1, <1>3 DEF Interface, User, OpenReqFails, OpenReq, OpenResFails, OpenRes,
       Start, SendBrokenPipe, Exit, Kill, At
<1>4. CASE WorkerOpenReq \/ WorkerOpenRes
  BY <1>1, <1>4 DEF WorkerOpenReq, WorkerOpenRes, Release
<1>5. CASE UNCHANGED iface
  BY <1>5
<1> QED
  BY <1>2, <1>3, <1>4, <1>5 DEF Next, Worker, RemoveReq, RemoveRes, MakeReq, MakeRes, ReadRequest,
     ReadEndOfFile, Respond, RespondBrokenPipe, CloseReq, CloseRes, KillWorker, StartWorker, vars

LEMMA BeforeSessionNext == Lines /\ [Next]_vars => BeforeSession'
<1> SUFFICES ASSUME Lines, [Next]_vars, NEW i \in Interfaces PROVE BeforeSession!(i)'
  BY DEF BeforeSession
<1>1. /\ Sessions /\ BeforeSession!(i)
      /\ iface \in [Interfaces -> InterfacePoints]
      /\ replies \in [Interfaces -> Seq(RequestIds)]
      /\ answer \in [Interfaces -> RequestIds \cup {NoRequest}]
      /\ asked \in [Interfaces -> 0 .. MaxRequests]
  BY DEF Lines, Sessions, TypeOK, BeforeSession
<1>2. CASE SendRequest(i)
  BY <1>1, <1>2 DEF SendRequest, At
<1>3. CASE ReadResponse(i)
  BY <1>1, <1>3 DEF ReadResponse, At
<1>4. CASE ResponseEndOfFile(i)
  BY <1>1, <1>4 DEF ResponseEndOfFile, At, local
<1>5. CASE ~SendRequest(i) /\ ~ReadResponse(i) /\ ~ResponseEndOfFile(i)
  <2>1. asked'[i] = asked[i]
    BY <1>1, <1>5, AsksAndAnswers DEF SendRequest
  <2>2. answer'[i] = answer[i] /\ replies'[i] = replies[i]
    BY <1>1, <1>5, AsksAndAnswers DEF ReadResponse
  <2> QED
    BY <1>1, <1>5, <2>1, <2>2, PlacesChange
<1> QED
  BY <1>2, <1>3, <1>4, <1>5

LEMMA StartOrderNext == Lines /\ [Next]_vars => StartOrder'
<1> SUFFICES ASSUME Lines, [Next]_vars, NEW i \in Interfaces, NEW j \in Interfaces,
                    i < j, iface'[j] # "new"
             PROVE  iface'[i] # "new" /\ ~Running(i)'
  BY DEF StartOrder
<1>1. /\ Sessions /\ StartOrder /\ iface \in [Interfaces -> InterfacePoints]
  BY DEF Lines, Sessions, TypeOK
<1>2. ASSUME NEW k \in Interfaces
      PROVE  /\ iface[k] # "new" => iface'[k] # "new"
             /\ iface[k] # "new" /\ ~Running(k) => ~Running(k)'
             /\ iface[k] = "new" /\ iface'[k] # "new" => Start(k)
  <2>1. CASE SendRequest(k) \/ ReadResponse(k) \/ ResponseEndOfFile(k)
    BY <1>1, <2>1 DEF SendRequest, ReadResponse, ResponseEndOfFile, At, Running
  <2>2. CASE ~SendRequest(k) /\ ~ReadResponse(k) /\ ~ResponseEndOfFile(k)
    BY <1>1, <2>2, PlacesChange DEF Running
  <2> QED
    BY <2>1, <2>2
<1>3. CASE iface[j] # "new"
  BY <1>1, <1>2, <1>3 DEF StartOrder
<1>4. CASE iface[j] = "new"
  <2>1. Start(j)
    BY <1>2, <1>4
  <2>2. iface[i] # "new" /\ ~Running(i)
    BY <2>1 DEF Start
  <2> QED
    BY <1>2, <2>2
<1> QED
  BY <1>3, <1>4

\* The pipes an interface opens are the first it opens.
LEMMA EndsChange ==
  ASSUME Sessions, [Next]_vars, NEW i \in Interfaces
  PROVE  /\ reqEnd'[i] = reqEnd[i] \/ iface[i] = "openReq"
         /\ resEnd'[i] = resEnd[i] \/ iface[i] = "openRes"
<1>1. /\ reqEnd \in [Interfaces -> Generations \cup {0}]
      /\ resEnd \in [Interfaces -> Generations \cup {0}]
  BY DEF Sessions, TypeOK
<1>2. CASE \E j \in Interfaces : OpenReq(j)
  BY <1>1, <1>2 DEF OpenReq, At
<1>3. CASE \E j \in Interfaces : OpenRes(j)
  BY <1>1, <1>3 DEF OpenRes, At
<1>4. CASE \A j \in Interfaces : ~OpenReq(j) /\ ~OpenRes(j)
  <2>1. UNCHANGED <<reqEnd, resEnd>>
    BY <1>4 DEF Next, Worker, Interface, User, OpenReqFails, OpenResFails,
       ReadResponse, ResponseEndOfFile, Start, SendRequest, SendBrokenPipe, Exit, Kill,
       RemoveReq, RemoveRes, MakeReq, MakeRes, WorkerOpenReq, WorkerOpenRes, ReadRequest,
       ReadEndOfFile, Respond, RespondBrokenPipe, CloseReq, CloseRes, KillWorker, StartWorker,
       vars, local
  <2> QED
    BY <2>1
<1> QED
  BY <1>2, <1>3, <1>4

LEMMA SentSame ==
  ASSUME Lines, [Next]_vars, \A i \in Interfaces : ~SendRequest(i), NEW g
  PROVE  SentOn(g)' = SentOn(g)
<1>1. /\ asked' = asked
      /\ \A i \in Interfaces : reqEnd'[i] = reqEnd[i] \/ asked[i] = 0
  BY AsksAndAnswers, EndsChange DEF Lines, BeforeSession
<1>2. \A b \in RequestIds : b[1] \in Interfaces /\ b[2] \in Nat /\ b[2] > 0
  BY BoundsAssumption DEF RequestIds
<1> QED
  BY <1>1, <1>2 DEF SentOn

\* Only a request, its answer or the end of the session changes what is owed.
LEMMA UnansweredSame ==
  ASSUME Lines, [Next]_vars, NEW g,
         \A i \in Interfaces : ~SendRequest(i) /\ ~ReadResponse(i) /\ ~ResponseEndOfFile(i)
  PROVE  Unanswered(g)' = Unanswered(g)
<1>1. \A i \in Interfaces :
        /\ iface'[i] \in {"waiting", "killedWaiting"} <=> iface[i] \in {"waiting", "killedWaiting"}
        /\ iface[i] \in {"waiting", "killedWaiting"} => reqEnd'[i] = reqEnd[i]
  BY PlacesChange, EndsChange DEF Lines, Running
<1> QED
  BY <1>1 DEF Unanswered

\* What such a step does to the lines in the pipes is all it does to the lines.
LEMMA PipesAlone ==
  ASSUME Lines, [Next]_vars, NEW g \in Generations,
         \A i \in Interfaces : ~SendRequest(i) /\ ~ReadResponse(i) /\ ~ResponseEndOfFile(i),
         \A d \in Nat : Carries(g, d) => Carries(g, d)'
  PROVE  AnswersDue(g)'
<1>1. /\ AnswersDue(g) /\ Sessions /\ BeforeSession
      /\ replies \in [Interfaces -> Seq(RequestIds)]
      /\ replies' = replies
  BY AsksAndAnswers DEF Lines, LinesDue, Sessions, TypeOK
<1>2. Carries(g, 0)'
  BY <1>1 DEF AnswersDue
<1>3. ASSUME NEW i \in Interfaces, Reads(i, g)'
      PROVE  Reads(i, g) \/ replies[i] = <<>>
  <2>1. iface'[i] \in {"idle", "waiting"} /\ resEnd'[i] = g
    BY <1>3 DEF Reads
  <2>2. iface[i] = iface'[i] \/ iface[i] \in {"openRes", "awaitResponses"}
    BY <1>1, <2>1, PlacesChange
  <2> QED
    BY <1>1, <2>1, <2>2, EndsChange DEF Reads, BeforeSession
<1>4. ASSUME NEW i \in Interfaces, Reads(i, g)'
      PROVE  DueOn(g, replies[i], 0)' /\ Carries(g, Len(replies[i]))'
  <2> DEFINE d == Len(replies[i])
  <2>1. d \in Nat
    BY <1>1
  <2>2. DueOn(g, replies[i], 0) /\ Carries(g, d)
    BY <1>1, <1>3, <1>4, NoLineDue DEF AnswersDue, DueOn
  <2>3. DueOn(g, replies[i], 0)'
    BY <1>1, <2>2, SentSame, UnansweredSame DEF DueOn
  <2>4. ASSUME NEW e \in Nat, e = d PROVE Carries(g, e)'
    BY <2>2, <2>4
  <2>5. d' = d
    BY <1>1
  <2> QED
    BY <2>1, <2>3, <2>4, <2>5 DEF Carries, DueOn
<1> QED
  BY <1>2, <1>4 DEF AnswersDue

\* The steps that leave the pipes, and what the worker has read, alone.
LEMMA OthersKeepLines ==
  ASSUME Lines, [Next]_vars, NEW g \in Generations,
         ~ReadRequest, ~Respond, ~WorkerOpenRes,
         \A i \in Interfaces : /\ ~SendRequest(i) /\ ~ReadResponse(i) /\ ~ResponseEndOfFile(i)
                               /\ ~OpenRes(i)
  PROVE  AnswersDue(g)'
<1>1. UNCHANGED <<reqBuf, resBuf>>
  BY DEF Next, Worker, Interface, User, OpenReqFails, OpenReq, OpenResFails, Start,
     SendBrokenPipe, Exit, Kill, RemoveReq, RemoveRes, MakeReq, MakeRes, WorkerOpenReq,
     ReadEndOfFile, RespondBrokenPipe, CloseReq, CloseRes, KillWorker, StartWorker, vars
<1>2. Live(g)' => Live(g) /\ lines' = lines
  BY DEF Next, Worker, Interface, User, OpenReqFails, OpenReq, OpenResFails, Start,
     SendBrokenPipe, Exit, Kill, RemoveReq, RemoveRes, MakeReq, MakeRes, WorkerOpenReq,
     ReadEndOfFile, RespondBrokenPipe, CloseReq, CloseRes, KillWorker, StartWorker, vars,
     WorkerAt, Live, pipes
<1>3. SentOn(g)' = SentOn(g) /\ Unanswered(g)' = Unanswered(g)
  BY SentSame, UnansweredSame
<1>4. \A d \in Nat : Carries(g, d) => Carries(g, d)'
  BY <1>1, <1>2, <1>3 DEF Carries, DueOn
<1> QED
  BY <1>4, PipesAlone

\* The first read of a session: its pipes are empty.
LEMMA OpeningKeepsLines ==
  ASSUME Lines, [Next]_vars, NEW g \in Generations,
         WorkerOpenRes \/ \E i \in Interfaces : OpenRes(i)
  PROVE  AnswersDue(g)'
<1>1. /\ UNCHANGED <<gen, reqBuf, resBuf>>
      /\ \/ UNCHANGED <<worker, lines>>
         \/ worker \in {"openRes", "awaitReader"} /\ lines' = <<>>
      /\ iface \in [Interfaces -> InterfacePoints]
  BY DEF WorkerOpenRes, OpenRes, pipes, Lines, Sessions, TypeOK
<1>2. \A i \in Interfaces : ~SendRequest(i) /\ ~ReadResponse(i) /\ ~ResponseEndOfFile(i)
  BY <1>1 DEF WorkerOpenRes, OpenRes, SendRequest, ReadResponse, ResponseEndOfFile, Release, At
<1>3. SentOn(g)' = SentOn(g) /\ Unanswered(g)' = Unanswered(g)
  BY <1>2, SentSame, UnansweredSame
<1>4. ASSUME NEW d \in Nat, Carries(g, d) PROVE Carries(g, d)'
  <2>1. DueOn(g, resBuf[g], d)'
    BY <1>1, <1>3, <1>4 DEF Carries, DueOn
  <2>2. CASE Live(g)' => Live(g) /\ lines' = lines
    BY <1>1, <1>3, <1>4, <2>2 DEF Carries, DueOn
  <2>3. CASE Live(g)' /\ worker \in {"openRes", "awaitReader"} /\ lines' = <<>>
    <3>1. reqBuf'[g] = <<>> /\ lines' = <<>>
      BY <1>1, <2>3 DEF Lines, NewPipesEmpty, Live, Opening
    <3> QED
      BY <2>1, <3>1, NoLineDue DEF Carries, DueOn
  <2> QED
    BY <1>1, <2>2, <2>3 DEF Live
<1> QED
  BY <1>2, <1>4, PipesAlone

LEMMA ReadRequestKeepsLines ==
  ASSUME Lines, [Next]_vars, NEW g \in Generations, ReadRequest
  PROVE  AnswersDue(g)'
<1>1. /\ UNCHANGED <<gen, iface, resBuf>> /\ worker = "read" /\ worker' = "respond"
      /\ \/ UNCHANGED <<lines, reqBuf>>
         \/ /\ lines = <<>> /\ lines' = reqBuf[gen]
            /\ reqBuf' = [reqBuf EXCEPT ![gen] = <<>>]
      /\ reqBuf \in [Generations -> Seq(RequestIds)]
      /\ resBuf \in [Generations -> Seq(RequestIds)]
  BY DEF ReadRequest, WorkerAt, pipes, Lines, Sessions, TypeOK
<1>2. \A i \in Interfaces : ~SendRequest(i) /\ ~ReadResponse(i) /\ ~ResponseEndOfFile(i)
  BY <1>1 DEF ReadRequest, SendRequest, ReadResponse, ResponseEndOfFile, At, Lines, Sessions, TypeOK
<1>3. SentOn(g)' = SentOn(g) /\ Unanswered(g)' = Unanswered(g)
  BY <1>2, SentSame, UnansweredSame
<1>4. ASSUME NEW d \in Nat, Carries(g, d) PROVE Carries(g, d)'
  <2>1. CASE g # gen \/ UNCHANGED <<lines, reqBuf>>
    BY <1>1, <1>3, <1>4, <2>1 DEF Carries, DueOn, Live
  <2>2. CASE g = gen /\ ~UNCHANGED <<lines, reqBuf>>
    <3>1. Live(g) /\ lines = <<>> /\ lines' = reqBuf[g] /\ reqBuf'[g] = <<>>
      BY <1>1, <2>2 DEF Live
    <3>2. Len(lines) + Len(resBuf[g]) + d = Len(resBuf[g]) + d
      BY <1>1, <3>1
    <3>3. DueOn(g, resBuf[g], d) /\ DueOn(g, reqBuf[g], Len(resBuf[g]) + d)
      BY <1>4, <3>1, <3>2 DEF Carries
    <3> QED
      BY <1>1, <1>3, <3>1, <3>3, NoLineDue DEF Carries, DueOn
  <2> QED
    BY <2>1, <2>2
<1> QED
  BY <1>2, <1>4, PipesAlone

LEMMA RespondKeepsLines ==
  ASSUME Lines, [Next]_vars, NEW g \in Generations, Respond
  PROVE  AnswersDue(g)'
<1>1. /\ UNCHANGED <<gen, iface, reqBuf>> /\ worker = "respond" /\ worker' = "read"
      /\ lines # <<>> /\ lines' = Tail(lines)
      /\ resBuf' = [resBuf EXCEPT ![gen] = Append(@, Head(lines))]
      /\ lines \in Seq(RequestIds)
      /\ reqBuf \in [Generations -> Seq(RequestIds)]
      /\ resBuf \in [Generations -> Seq(RequestIds)]
  BY DEF Respond, WorkerAt, pipes, Lines, Sessions, TypeOK, RespondsToLine
<1>2. \A i \in Interfaces : ~SendRequest(i) /\ ~ReadResponse(i) /\ ~ResponseEndOfFile(i)
  BY <1>1 DEF Respond, SendRequest, ReadResponse, ResponseEndOfFile, At, Lines, Sessions, TypeOK
<1>3. SentOn(g)' = SentOn(g) /\ Unanswered(g)' = Unanswered(g)
  BY <1>2, SentSame, UnansweredSame
<1>4. ASSUME NEW d \in Nat, Carries(g, d) PROVE Carries(g, d)'
  <2>1. CASE g # gen
    BY <1>1, <1>3, <1>4, <2>1 DEF Carries, DueOn, Live
  <2>2. CASE g = gen
    <3> DEFINE k == Len(resBuf[g]) + d
               owed == Cardinality(Unanswered(g))
               e == Len(lines') + Len(resBuf'[g]) + d
    <3>1. /\ k \in Nat /\ Head(lines) \in RequestIds
          /\ resBuf'[g] = Append(resBuf[g], Head(lines))
          /\ Len(resBuf'[g]) = Len(resBuf[g]) + 1
          /\ Len(lines) = Len(lines') + 1 /\ Len(lines') \in Nat
          /\ Len(resBuf'[g]) + d = k + 1
          /\ e = Len(lines) + Len(resBuf[g]) + d
      BY <1>1, <2>2
    <3>2. DueOn(g, resBuf[g], d) /\ DueOn(g, lines, k) /\ DueOn(g, reqBuf[g], e)
      BY <1>1, <1>4, <2>2, <3>1 DEF Carries, Live
    <3> HIDE DEF k, e
    <3>3. /\ Head(lines) \in SentOn(g)
          /\ Cardinality(Behind(SentOn(g), Head(lines))) + 1 + k <= owed
          /\ Due(SentOn(g), owed, Tail(lines), k + 1)
      BY <1>1, <3>1, <3>2, FiniteSent, DueHead DEF DueOn
    <3>4. Cardinality(Behind(SentOn(g), Head(lines))) \in Nat
      BY FiniteSent, FS_Subset, FS_CardinalityType DEF Behind
    <3>5. Cardinality(Behind(SentOn(g), Head(lines))) + (Len(resBuf[g]) + 1) + d <= owed
      BY <1>1, <3>3, <3>4, FiniteSent DEF k
    <3> HIDE DEF owed
    <3>6. Due(SentOn(g), owed, Append(resBuf[g], Head(lines)), d)
      BY <1>1, <3>1, <3>2, <3>3, <3>5, DueAppend DEF DueOn, owed
    <3> QED
      BY <1>1, <1>3, <3>1, <3>2, <3>3, <3>6 DEF Carries, DueOn, owed, e
  <2> QED
    BY <2>1, <2>2
<1> QED
  BY <1>2, <1>4, PipesAlone

\* A request goes behind the lines on its way, and is one answer more to come.
LEMMA SendRequestKeepsLines ==
  ASSUME Lines, [Next]_vars, NEW g \in Generations, NEW i \in Interfaces, SendRequest(i)
  PROVE  AnswersDue(g)'
<1> DEFINE r == <<i, asked[i] + 1>>
           sent == SentOn(g)
           owed == Cardinality(Unanswered(g))
<1>1. /\ UNCHANGED <<worker, gen, resBuf, lines, reqEnd, resEnd, replies>>
      /\ iface[i] = "idle" /\ iface' = [iface EXCEPT ![i] = "waiting"]
      /\ asked[i] < MaxRequests /\ asked' = [asked EXCEPT ![i] = @ + 1]
      /\ reqBuf' = [reqBuf EXCEPT ![gen] = Append(@, r)]
      /\ reqEnd[i] = gen /\ resEnd[i] = gen /\ gen \in Generations
  BY SendsInSession DEF SendRequest, At, pipes, Lines
<1>2. /\ AnswersDue(g) /\ OneRuns /\ StartOrder /\ EndsOrdered
      /\ iface \in [Interfaces -> InterfacePoints]
      /\ reqBuf \in [Generations -> Seq(RequestIds)]
      /\ resBuf \in [Generations -> Seq(RequestIds)]
      /\ lines \in Seq(RequestIds)
      /\ replies \in [Interfaces -> Seq(RequestIds)]
      /\ asked \in [Interfaces -> 0 .. MaxRequests]
      /\ MaxRequests \in Nat /\ gen \in Nat
  BY BoundsAssumption, PipesExist DEF Lines, LinesDue, Sessions, TypeOK
<1>3. \A j \in Interfaces : Reads(j, g)' => j = i
  BY <1>1, <1>2 DEF OneRuns, Running, Reads
<1>4. CASE g # gen
  <2>1. SentOn(g)' = SentOn(g) /\ Unanswered(g)' = Unanswered(g)
    <3>1. \A b \in RequestIds : b[1] \in Interfaces
      BY DEF RequestIds
    <3> QED
      BY <1>1, <1>2, <1>4, <3>1 DEF SentOn, Unanswered
  <2>2. ~Live(g)' /\ \A j \in Interfaces : ~Reads(j, g)'
    BY <1>1, <1>3, <1>4 DEF Live, Reads
  <2> QED
    BY <1>1, <1>2, <2>1, <2>2 DEF AnswersDue, Carries, DueOn
<1>5. CASE g = gen
  <2>1. r \in RequestIds /\ reqBuf'[g] = Append(reqBuf[g], r)
    BY <1>1, <1>2, <1>5 DEF RequestIds
  <2>2. SentOn(g)' = sent \cup {r}
    <3>1. \A b \in RequestIds : b[1] \in Interfaces /\ b[2] \in Nat /\ b = <<b[1], b[2]>>
      BY <1>2 DEF RequestIds
    <3>2. \A b \in RequestIds : b[1] # i => (b \in SentOn(g)' <=> b \in sent)
      BY <1>1, <1>2, <3>1 DEF SentOn
    <3>3. \A b \in RequestIds : b[1] = i => (b \in SentOn(g)' <=> b \in sent \/ b[2] = asked[i] + 1)
      BY <1>1, <1>2, <1>5, <3>1 DEF SentOn
    <3>4. \A b \in RequestIds : b = r <=> b[1] = i /\ b[2] = asked[i] + 1
      BY <3>1
    <3>5. SentOn(g)' \subseteq RequestIds /\ sent \subseteq RequestIds
      BY DEF SentOn
    <3> HIDE DEF r, sent
    <3> QED
      BY <2>1, <3>2, <3>3, <3>4, <3>5
  <2>3. Behind(sent \cup {r}, r) = {}
    <3>1. ASSUME NEW b \in sent PROVE ~Precedes(r, b)
      <4>1. b[1] \in Interfaces /\ b[2] \in Nat /\ reqEnd[b[1]] = g /\ b[2] <= asked[b[1]]
        BY <1>2 DEF SentOn, RequestIds
      <4>2. iface[b[1]] # "new"
        BY <4>1, <1>2 DEF EndsOrdered, Generations
      <4>3. Running(i)
        BY <1>1 DEF Running
      <4>4. ~(i < b[1])
        BY <1>2, <4>1, <4>2, <4>3 DEF StartOrder
      <4> QED
        BY <1>2, <4>1, <4>4 DEF Precedes
    <3>2. ~Precedes(r, r)
      <4>1. i \in Int /\ asked[i] + 1 \in Int
        BY <1>2, BoundsAssumption DEF Interfaces
      <4>2. r[1] = i /\ r[2] = asked[i] + 1
        OBVIOUS
      <4> HIDE DEF r
      <4> QED
        BY <4>1, <4>2 DEF Precedes
    <3> QED
      BY <3>1, <3>2 DEF Behind
  <2>4. Cardinality(Unanswered(g)') = owed + 1 /\ owed \in Nat
    <3>1. Unanswered(g)' = Unanswered(g) \cup {i} /\ i \notin Unanswered(g)
      BY <1>1, <1>2, <1>5 DEF Unanswered
    <3> QED
      BY <3>1, FiniteSent, FS_AddElement
  <2>5. IsFiniteSet(sent) /\ Cardinality({}) = 0
    BY FiniteSent, FS_EmptySet
  <2> HIDE DEF r, sent, owed
  <2>6. ASSUME NEW d \in Nat, d <= owed, Carries(g, d)
        PROVE  Carries(g, d)'
    <3> DEFINE k == Len(resBuf[g]) + d
               e == Len(lines) + Len(resBuf[g]) + d
    <3>1. /\ k \in Nat /\ e \in Nat /\ e = Len(lines) + k
          /\ Len(resBuf[g]) \in Nat /\ Len(lines) \in Nat /\ Len(reqBuf[g]) \in Nat
          /\ resBuf[g] \in Seq(RequestIds) /\ reqBuf[g] \in Seq(RequestIds)
      BY <1>2
    <3>2. Due(sent, owed, resBuf[g], d) /\ k <= owed
      BY <2>4, <2>5, <2>6, <3>1, DueRoom DEF Carries, DueOn, sent, owed
    <3>3. Due(sent \cup {r}, owed + 1, resBuf[g], d)
      BY <2>4, <2>5, <3>1, <3>2, DueSent
    <3>4. ASSUME Live(g)
          PROVE  /\ Due(sent \cup {r}, owed + 1, lines, k)
                 /\ Due(sent \cup {r}, owed + 1, Append(reqBuf[g], r), e)
      <4>1. Due(sent, owed, lines, k) /\ Due(sent, owed, reqBuf[g], e)
        BY <2>6, <3>4 DEF Carries, DueOn, sent, owed
      <4> HIDE DEF k, e
      <4>2. e <= owed
        BY <1>2, <2>4, <2>5, <3>1, <3>2, <4>1, DueRoom
      <4>3. Len(reqBuf[g]) + e <= owed
        BY <2>4, <2>5, <3>1, <4>1, <4>2, DueRoom
      <4>4. Due(sent \cup {r}, owed + 1, lines, k) /\ Due(sent \cup {r}, owed + 1, reqBuf[g], e)
        BY <2>4, <2>5, <3>1, <4>1, DueSent
      <4>5. Cardinality(Behind(sent \cup {r}, r)) + (Len(reqBuf[g]) + 1) + e <= owed + 1
        <5>1. Cardinality(Behind(sent \cup {r}, r)) = 0
          BY <2>3, <2>5, Zenon
        <5>2. Len(reqBuf[g]) \in Nat /\ e \in Nat /\ owed \in Nat
          BY <2>4, <3>1
        <5> QED
          BY <4>3, <5>1, <5>2
      <4> QED
        BY <2>1, <3>1, <4>4, <4>5, DueAppend
    <3>5. Live(g)' => Live(g)
      BY <1>1 DEF Live
    <3> QED
      BY <1>1, <2>1, <2>2, <2>4, <3>3, <3>4, <3>5 DEF Carries, DueOn
  <2>7. Carries(g, 0)'
    BY <1>2, <2>4, <2>6 DEF AnswersDue
  <2>8. DueOn(g, replies[i], 0)' /\ Carries(g, Len(replies[i]))'
    <3> DEFINE d == Len(replies[i])
    <3>1. Due(sent, owed, replies[i], 0) /\ Carries(g, d)
      BY <1>1, <1>2, <1>5 DEF AnswersDue, Reads, DueOn, sent, owed
    <3>2. d \in Nat /\ d <= owed
      <4>1. replies[i] \in Seq(RequestIds) /\ d \in Nat /\ 0 <= owed
        BY <1>2, <2>4
      <4>2. d + 0 <= owed
        BY <2>4, <2>5, <3>1, <4>1, DueRoom
      <4> QED
        BY <2>4, <4>1, <4>2
    <3>3. Due(sent \cup {r}, owed + 1, replies[i], 0)
      <4>1. \A s, n : Due(sent, owed, s, n) /\ Len(s) \in Nat /\ n \in Nat =>
                        Due(sent \cup {r}, owed + 1, s, n)
        BY <2>4, <2>5, DueSent
      <4> QED
        BY <3>1, <3>2, <4>1
    <3>4. DueOn(g, replies[i], 0)'
      BY <1>1, <2>2, <2>4, <3>3 DEF DueOn
    <3>5. \A e \in Nat : e = d => Carries(g, e)'
      BY <2>6, <3>1, <3>2
    <3>6. d' = d
      BY <1>1
    <3> QED
      BY <3>2, <3>4, <3>5, <3>6 DEF Carries, DueOn
  <2> QED
    BY <1>3, <2>7, <2>8 DEF AnswersDue
<1> QED
  BY <1>4, <1>5

\* The lines an interface reads, and what is owed when it has taken the first of them.
LEMMA AnswerRead ==
  ASSUME Lines, [Next]_vars, NEW i \in Interfaces, ReadResponse(i), NEW g, g = resEnd[i]
  PROVE  /\ g \in Generations /\ reqEnd[i] = g
         /\ answer'[i] \in SentOn(g)
         /\ Cardinality(Behind(SentOn(g), answer'[i])) <= Cardinality(Unanswered(g)')
         /\ \A h : SentOn(h)' = SentOn(h) /\ (h # g => Unanswered(h)' = Unanswered(h))
         /\ AnswersDue(g)'
<1> DEFINE held == IF replies[i] # <<>> THEN replies[i] ELSE resBuf[g]
           d == Len(replies[i])
           owed == Cardinality(Unanswered(g))
<1>1. /\ iface[i] = "waiting" /\ g \in Generations /\ reqEnd[i] = g
      /\ iface \in [Interfaces -> InterfacePoints]
      /\ reqBuf \in [Generations -> Seq(RequestIds)]
      /\ resBuf \in [Generations -> Seq(RequestIds)]
      /\ lines \in Seq(RequestIds)
      /\ replies \in [Interfaces -> Seq(RequestIds)]
      /\ asked \in [Interfaces -> 0 .. MaxRequests]
      /\ answer \in [Interfaces -> RequestIds \cup {NoRequest}]
      /\ OneRuns /\ AnswersDue(g)
  BY PipesExist DEF ReadResponse, At, Lines, LinesDue, Sessions, TypeOK, EndsOrdered
<1>2. /\ UNCHANGED <<worker, gen, reqBuf, lines, reqEnd, resEnd, asked>>
      /\ iface' = [iface EXCEPT ![i] = "idle"]
      /\ held # <<>> /\ answer' = [answer EXCEPT ![i] = Head(held)]
      /\ replies' = [replies EXCEPT ![i] = Tail(held)]
      /\ resBuf' = IF replies[i] # <<>> THEN resBuf ELSE [resBuf EXCEPT ![g] = <<>>]
  BY DEF ReadResponse, At, pipes
<1>3. \A h : SentOn(h)' = SentOn(h)
  BY <1>2 DEF SentOn
<1>4. /\ Unanswered(g)' = Unanswered(g) \ {i} /\ i \in Unanswered(g)
      /\ \A h : h # g => Unanswered(h)' = Unanswered(h)
  BY <1>1, <1>2 DEF Unanswered
<1>5. Cardinality(Unanswered(g)') = owed - 1 /\ owed \in Nat /\ owed - 1 \in Nat
  <2>1. IsFiniteSet(Unanswered(g)) /\ owed \in Nat /\ IsFiniteSet(Unanswered(g)')
    BY <1>4, FiniteSent, FS_Subset
  <2>2. Cardinality(Unanswered(g)') = owed - 1 /\ Cardinality(Unanswered(g)') \in Nat
    BY <1>4, <2>1, FS_RemoveElement, FS_CardinalityType
  <2> QED
    BY <2>1, <2>2
<1>6. IsFiniteSet(SentOn(g))
  BY FiniteSent
<1>7. DueOn(g, replies[i], 0) /\ Carries(g, d) /\ Carries(g, 0) /\ d \in Nat
  BY <1>1 DEF AnswersDue, Reads
<1>8. held \in Seq(RequestIds) /\ Due(SentOn(g), owed, held, 0)
  <2>1. CASE replies[i] # <<>>
    BY <1>1, <1>7, <2>1 DEF DueOn
  <2>2. CASE replies[i] = <<>>
    BY <1>1, <1>7, <2>2 DEF DueOn, Carries
  <2> QED
    BY <2>1, <2>2
<1> HIDE DEF held, owed
<1>9. /\ Head(held) \in SentOn(g)
      /\ Cardinality(Behind(SentOn(g), Head(held))) + 1 + 0 <= owed
      /\ Due(SentOn(g), owed, Tail(held), 0 + 1)
  BY <1>2, <1>5, <1>6, <1>8, DueHead
<1>10. Cardinality(Behind(SentOn(g), Head(held))) <= owed - 1
  <2>1. Cardinality(Behind(SentOn(g), Head(held))) \in Nat
    BY <1>6, FS_Subset, FS_CardinalityType DEF Behind
  <2> QED
    BY <1>5, <1>9, <2>1
<1>11. /\ Tail(held) \in Seq(RequestIds) /\ Len(Tail(held)) \in Nat
       /\ Len(held) = Len(Tail(held)) + 1
  BY <1>2, <1>8
<1>12. Due(SentOn(g), owed - 1, Tail(held), 0)
  BY <1>5, <1>6, <1>9, <1>11, DueLess
<1>13. ASSUME NEW e \in Nat, e + 1 <= Len(held)
       PROVE  Carries(g, e)'
  <2> DEFINE k == Len(resBuf[g]) + d
             m == Len(lines) + Len(resBuf[g]) + d
             k2 == Len(resBuf'[g]) + e
             m2 == Len(lines) + Len(resBuf'[g]) + e
  <2>1. /\ k \in Nat /\ m \in Nat /\ k2 \in Nat /\ m2 \in Nat
        /\ k2 + 1 <= k /\ m2 + 1 <= m
        /\ Len(lines) \in Nat /\ Len(reqBuf[g]) \in Nat /\ Len(resBuf[g]) \in Nat
    <3>1. CASE replies[i] # <<>>
      <4>1. e + 1 <= d /\ resBuf'[g] = resBuf[g]
        BY <1>2, <1>13, <3>1 DEF held
      <4>2. Len(lines) \in Nat /\ Len(reqBuf[g]) \in Nat /\ Len(resBuf[g]) \in Nat
        BY <1>1
      <4> HIDE DEF d
      <4> QED
        BY <1>7, <1>13, <4>1, <4>2
    <3>2. CASE replies[i] = <<>>
      <4>1. held = resBuf[g] /\ resBuf'[g] = <<>> /\ d = 0
        BY <1>1, <1>2, <3>2 DEF held
      <4> QED
        BY <1>1, <1>13, <4>1
    <3> QED
      BY <3>1, <3>2
  <2>2. Due(SentOn(g), owed - 1, resBuf'[g], e)
    <3>1. CASE replies[i] # <<>>
      <4>1. e + 1 <= d /\ resBuf' = resBuf /\ Due(SentOn(g), owed, resBuf[g], d)
        BY <1>2, <1>7, <1>13, <3>1 DEF held, Carries, DueOn, owed
      <4> QED
        BY <1>5, <1>6, <1>7, <2>1, <4>1, DueLess
    <3>2. CASE replies[i] = <<>>
      <4>1. resBuf'[g] = <<>>
        BY <1>1, <1>2, <3>2
      <4> QED
        BY <4>1, NoLineDue
    <3> QED
      BY <3>1, <3>2
  <2>3. ASSUME Live(g)
        PROVE  Due(SentOn(g), owed - 1, lines, k2) /\ Due(SentOn(g), owed - 1, reqBuf[g], m2)
    <3>1. Due(SentOn(g), owed, lines, k) /\ Due(SentOn(g), owed, reqBuf[g], m)
      BY <1>7, <2>3 DEF Carries, DueOn, owed
    <3> HIDE DEF k, m, k2, m2
    <3>2. owed + k2 <= (owed - 1) + k /\ owed + m2 <= (owed - 1) + m
      BY <1>5, <2>1
    <3> QED
      BY <1>5, <1>6, <2>1, <3>1, <3>2, DueLess
  <2>4. Live(g)' => Live(g)
    BY <1>2 DEF Live
  <2> QED
    BY <1>2, <1>3, <1>5, <2>2, <2>3, <2>4 DEF Carries, DueOn
<1>14. AnswersDue(g)'
  <2>1. Carries(g, 0)'
    BY <1>11, <1>13
  <2>2. replies'[i] = Tail(held)
    BY <1>1, <1>2
  <2>3. DueOn(g, replies[i], 0)'
    BY <1>3, <1>5, <1>12, <2>2 DEF DueOn
  <2>4. Carries(g, Len(replies[i]))'
    <3>1. \A e \in Nat : e = Len(Tail(held)) => Carries(g, e)'
      BY <1>11, <1>13
    <3> QED
      BY <1>11, <2>2, <3>1 DEF Carries, DueOn
  <2>5. \A j \in Interfaces : Reads(j, g)' => j = i
    BY <1>1, <1>2 DEF OneRuns, Running, Reads
  <2> QED
    BY <2>1, <2>3, <2>4, <2>5 DEF AnswersDue
<1>15. answer'[i] = Head(held)
  BY <1>1, <1>2
<1> QED
  BY <1>1, <1>3, <1>4, <1>5, <1>9, <1>10, <1>14, <1>15

LEMMA ReadResponseKeepsLines ==
  ASSUME Lines, [Next]_vars, NEW g \in Generations, NEW i \in Interfaces, ReadResponse(i)
  PROVE  AnswersDue(g)'
<1>1. CASE g = resEnd[i]
  BY <1>1, AnswerRead
<1>2. CASE g # resEnd[i]
  <2>1. SentOn(g)' = SentOn(g) /\ Unanswered(g)' = Unanswered(g)
    BY <1>2, AnswerRead
  <2>2. /\ UNCHANGED <<worker, gen, reqBuf, lines, resEnd>> /\ resBuf'[g] = resBuf[g]
        /\ iface[i] = "waiting" /\ iface' = [iface EXCEPT ![i] = "idle"]
        /\ iface \in [Interfaces -> InterfacePoints] /\ OneRuns /\ AnswersDue(g)
    BY <1>2 DEF ReadResponse, At, pipes, Lines, LinesDue, Sessions, TypeOK
  <2>3. \A j \in Interfaces : ~Reads(j, g)'
    BY <1>2, <2>2 DEF OneRuns, Running, Reads
  <2> QED
    BY <2>1, <2>2, <2>3 DEF AnswersDue, Carries, DueOn, Live
<1> QED
  BY <1>1, <1>2

\* End of file: the session is over, and nothing is left on its response pipe.
LEMMA EndOfFileKeepsLines ==
  ASSUME Lines, [Next]_vars, NEW g \in Generations, NEW i \in Interfaces, ResponseEndOfFile(i)
  PROVE  AnswersDue(g)'
<1>1. /\ UNCHANGED <<worker, gen, reqBuf, resBuf, lines, reqEnd, resEnd, replies, asked>>
      /\ iface[i] = "waiting" /\ iface' = [iface EXCEPT ![i] = "exited"]
      /\ resBuf[resEnd[i]] = <<>> /\ ~WorkerWrites(resEnd[i])
      /\ iface \in [Interfaces -> InterfacePoints] /\ OneRuns /\ AnswersDue(g)
      /\ reqEnd[i] = resEnd[i]
  BY DEF ResponseEndOfFile, At, pipes, local, Lines, LinesDue, Sessions, TypeOK, EndsOrdered
<1>2. \A j \in Interfaces : ~Reads(j, g)'
  BY <1>1 DEF OneRuns, Running, Reads
<1>3. CASE g # resEnd[i]
  <2>1. SentOn(g)' = SentOn(g) /\ Unanswered(g)' = Unanswered(g)
    BY <1>1, <1>3 DEF SentOn, Unanswered
  <2> QED
    BY <1>1, <1>2, <2>1 DEF AnswersDue, Carries, DueOn, Live
<1>4. CASE g = resEnd[i]
  BY <1>1, <1>2, <1>4, NoLineDue DEF AnswersDue, Carries, DueOn, Live, WorkerWrites
<1> QED
  BY <1>3, <1>4

LEMMA LinesDueNext == Lines /\ [Next]_vars => LinesDue'
<1> SUFFICES ASSUME Lines, [Next]_vars, NEW g \in Generations
             PROVE  AnswersDue(g)'
  BY DEF LinesDue, Generations
<1> QED
  BY OthersKeepLines, OpeningKeepsLines, ReadRequestKeepsLines, RespondKeepsLines,
     SendRequestKeepsLines, ReadResponseKeepsLines, EndOfFileKeepsLines

\* An interface killed while it waited stays so, on the same pipes.
LEMMA KilledStays ==
  ASSUME Lines, [Next]_vars, NEW g
  PROVE  KilledWaiting(g) \subseteq KilledWaiting(g)'
<1> SUFFICES ASSUME NEW j \in Interfaces, iface[j] = "killedWaiting"
             PROVE  iface'[j] = "killedWaiting" /\ reqEnd'[j] = reqEnd[j]
  BY DEF KilledWaiting
<1>1. ~SendRequest(j) /\ ~ReadResponse(j) /\ ~ResponseEndOfFile(j)
  BY DEF SendRequest, ReadResponse, ResponseEndOfFile, At
<1> QED
  BY <1>1, PlacesChange, EndsChange DEF Lines, Running

LEMMA AnswersInTurnNext == Lines /\ [Next]_vars => AnswersInTurn'
<1> SUFFICES ASSUME Lines, [Next]_vars, NEW i \in Interfaces, NEW g, g = reqEnd'[i],
                    iface'[i] = "idle", answer'[i] # NoRequest
             PROVE  /\ answer'[i] \in SentOn(g)'
                    /\ Cardinality(Behind(SentOn(g)', answer'[i])) <= Cardinality(KilledWaiting(g)')
  BY DEF AnswersInTurn, SentAfter, SentOn, KilledWaiting, Behind
<1>1. /\ Sessions /\ BeforeSession /\ AnswersInTurn /\ OneRuns'
      /\ iface \in [Interfaces -> InterfacePoints]
      /\ answer \in [Interfaces -> RequestIds \cup {NoRequest}]
  BY OneRunsNext DEF Lines, Sessions, TypeOK
<1>2. CASE ReadResponse(i)
  <2>1. reqEnd'[i] = reqEnd[i] /\ resEnd[i] = g
    BY <1>2, AnswerRead DEF ReadResponse
  <2>2. /\ answer'[i] \in SentOn(g) /\ SentOn(g)' = SentOn(g)
        /\ Cardinality(Behind(SentOn(g), answer'[i])) <= Cardinality(Unanswered(g)')
    BY <1>2, <2>1, AnswerRead
  <2>3. Unanswered(g)' = KilledWaiting(g)'
    BY <1>1 DEF OneRuns, Running, Unanswered, KilledWaiting
  <2> QED
    BY <2>2, <2>3
<1>3. CASE ~ReadResponse(i)
  <2>1. answer'[i] = answer[i]
    BY <1>1, <1>3, AsksAndAnswers DEF ReadResponse
  <2>2. iface[i] = "idle"
    <3>1. ~SendRequest(i) /\ ~ResponseEndOfFile(i)
      BY <1>1 DEF SendRequest, ResponseEndOfFile, At
    <3>2. iface[i] = "idle" \/ iface[i] \in {"openRes", "awaitResponses"}
      BY <1>1, <1>3, <3>1, PlacesChange
    <3> QED
      BY <1>1, <2>1, <3>2 DEF BeforeSession
  <2>3. reqEnd[i] = g
    BY <1>1, <2>2, EndsChange
  <2>4. \A j \in Interfaces : ~SendRequest(j)
    BY <1>1, <2>2 DEF SendRequest, At, Sessions, OneRuns, Running
  <2>5. SentOn(g)' = SentOn(g)
    BY <2>4, SentSame
  <2>6. Cardinality(KilledWaiting(g)) <= Cardinality(KilledWaiting(g)')
    <3>1. IsFiniteSet(KilledWaiting(g)')
      BY SomeInterfaces DEF KilledWaiting
    <3> QED
      BY <3>1, KilledStays, FS_Subset
  <2>7. /\ answer[i] \in SentOn(g)
        /\ Cardinality(Behind(SentOn(g), answer[i])) <= Cardinality(KilledWaiting(g))
    BY <1>1, <2>1, <2>2, <2>3 DEF AnswersInTurn, SentAfter, Behind
  <2>8. /\ Cardinality(Behind(SentOn(g), answer[i])) \in Nat
        /\ Cardinality(KilledWaiting(g)) \in Nat /\ Cardinality(KilledWaiting(g)') \in Nat
    <3>1. IsFiniteSet(Behind(SentOn(g), answer[i]))
      BY FiniteSent, FS_Subset DEF Behind
    <3> QED
      BY <3>1, SomeInterfaces, FS_CardinalityType DEF KilledWaiting
  <2> QED
    BY <2>1, <2>5, <2>6, <2>7, <2>8
<1> QED
  BY <1>2, <1>3

LEMMA LinesNext == Lines /\ [Next]_vars => Lines'
BY SessionsNext, NewPipesEmptyNext, BeforeSessionNext, StartOrderNext, LinesDueNext,
   AnswersInTurnNext DEF Lines

\* An interface reads answers to requests on its own pipes, and is behind by no more
\* than the answers the interfaces killed on them did not wait for: the worker's
\* sessions (main, create_pipes) and the interface's (main, connect_to_pipes).
THEOREM FifoAnswersInTurn == Spec => []AnswersInTurn
<1>1. Lines => AnswersInTurn
  BY DEF Lines
<1> QED
  BY <1>1, LinesInit, LinesNext, PTL DEF Spec

\* The answer an interface has read is the one to the request it sent last, provided
\* that nobody was killed between a request and its answer on the same pipes.
OwnAnswer ==
  \A i \in Interfaces :
    iface[i] = "idle" /\ answer[i] # NoRequest /\ KilledWaiting(reqEnd[i]) = {} =>
      answer[i] = <<i, asked[i]>>

\* Without such a kill no session reads an answer of another: sessions that end with
\* exit, at end of file or with the worker leave nothing behind (main of both programs).
THEOREM FifoOwnAnswer == Spec => []OwnAnswer
<1>1. ASSUME Lines, NEW i \in Interfaces,
             iface[i] = "idle", answer[i] # NoRequest, KilledWaiting(reqEnd[i]) = {}
      PROVE  answer[i] = <<i, asked[i]>>
  <2> DEFINE g == reqEnd[i]
             a == answer[i]
             last == <<i, asked[i]>>
  <2>1. /\ asked[i] \in 1 .. MaxRequests /\ MaxRequests \in Nat
        /\ g \in Generations
        /\ StartOrder /\ EndsOrdered
    BY <1>1, BoundsAssumption, PipesExist DEF Lines, BeforeSession, Sessions, TypeOK
  <2>2. a \in SentOn(g) /\ SentAfter(g, a) = {}
    <3>1. a \in SentOn(g) /\ Cardinality(SentAfter(g, a)) <= 0
      BY <1>1, FS_EmptySet DEF Lines, AnswersInTurn
    <3>2. IsFiniteSet(SentAfter(g, a)) /\ Cardinality(SentAfter(g, a)) \in Nat
      BY FiniteSent, FS_Subset, FS_CardinalityType DEF SentAfter
    <3>3. Cardinality(SentAfter(g, a)) = 0
      BY <3>1, <3>2
    <3> QED
      BY <3>1, <3>2, <3>3, FS_EmptySet
  <2>3. /\ a[1] \in Interfaces /\ a[2] \in Nat /\ a = <<a[1], a[2]>>
        /\ reqEnd[a[1]] = g /\ a[2] <= asked[a[1]]
    BY <2>1, <2>2 DEF SentOn, RequestIds
  <2>4. ~(i < a[1])
    BY <1>1, <2>1, <2>3 DEF StartOrder, Running, EndsOrdered, Generations
  <2>5. last \in SentOn(g)
    BY <2>1 DEF SentOn, RequestIds
  <2>6. ~Precedes(a, last)
    BY <2>2, <2>5 DEF SentAfter
  <2>7. ~(a[1] < i) /\ (a[1] = i => ~(a[2] < asked[i]))
    BY <2>6 DEF Precedes
  <2>8. a[1] = i
    BY <2>3, <2>4, <2>7 DEF Interfaces
  <2> QED
    BY <2>1, <2>3, <2>7, <2>8
<1>2. Lines => OwnAnswer
  BY <1>1 DEF OwnAnswer
<1> QED
  BY <1>2, LinesInit, LinesNext, PTL DEF Spec

=============================================================================
