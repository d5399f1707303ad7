----------------------------- MODULE Calculator -----------------------------
(***************************************************************************)
(* What the calculator of Homework1/Codes/part1 computes, and what of it   *)
(* survives the JSON lines: the arithmetic of Go's int, and the fields that*)
(* "omitempty" leaves out of a line.                                       *)
(***************************************************************************)
EXTENDS Integers

CONSTANT MaxInt  \* the largest int, 2^63 - 1 in the program

ASSUME MaxIntAssumption == MaxInt \in Nat \ {0}

MinInt == -MaxInt - 1
Ints == MinInt .. MaxInt

\* The number of values of an int.
Modulus == 2 * (MaxInt + 1)

\* The value of int that is congruent to n.
Wrap(n) == ((n - MinInt) % Modulus) + MinInt

\* Go rounds towards zero.
Quotient(a, b) ==
  LET size == (IF a < 0 THEN -a ELSE a) \div (IF b < 0 THEN -b ELSE b)
  IN  IF (a < 0) = (b < 0) THEN size ELSE -size

Request == [operation : {"ADD", "SUB", "MUL", "DIV"}, operand1 : Ints, operand2 : Ints]

Response == [status : {"", "ok", "err"}, result : Ints,
             error : {"", "division_by_zero", "empty_operation", "unknown_operation"}]

Ok(n) == [status |-> "ok", result |-> Wrap(n), error |-> ""]
Err(what) == [status |-> "err", result |-> 0, error |-> what]

process_operation_req(req) ==
  LET a == req.operand1
      b == req.operand2
  IN  CASE req.operation = "ADD" -> Ok(a + b)
        [] req.operation = "SUB" -> Ok(a - b)
        [] req.operation = "MUL" -> Ok(a * b)
        [] req.operation = "DIV" /\ b = 0 -> Err("division_by_zero")
        [] req.operation = "DIV" /\ b # 0 -> Ok(Quotient(a, b))
        [] req.operation = "" -> Err("empty_operation")
        [] req.operation \notin {"", "ADD", "SUB", "MUL", "DIV"} -> Err("unknown_operation")

-----------------------------------------------------------------------------
\* json.Marshal of a Response: a result of 0 and an empty error are omitted.
Marshal(res) ==
  [f \in {"status"} \cup (IF res.result = 0 THEN {} ELSE {"result"})
                    \cup (IF res.error = "" THEN {} ELSE {"error"}) |-> res[f]]

ZeroResponse == [status |-> "", result |-> 0, error |-> ""]

\* json.Unmarshal: what the line does not say stays as it is in the variable.
Unmarshal(line, variable) ==
  [f \in DOMAIN variable |-> IF f \in DOMAIN line THEN line[f] ELSE variable[f]]

\* (mutant of Received) one variable for all answers.
ReceivedIntoLast(line, last) == Unmarshal(line, last)

\* read_operation_res_from_pipe decodes into a variable of its own.
Received(line, last) == Unmarshal(line, ZeroResponse)

-----------------------------------------------------------------------------
\* What a user of the calculator may expect: the exact result if it fits in an
\* int, else the int congruent to it; a quotient rounded towards zero.
IsAnswer(req, res) ==
  LET a == req.operand1
      b == req.operand2
      congruent(n) == (res.result - n) % Modulus = 0
      rounded(rest) ==
        /\ rest < (IF b < 0 THEN -b ELSE b)
        /\ -rest < (IF b < 0 THEN -b ELSE b)
        /\ rest = 0 \/ (rest < 0) = (a < 0)
      fails == req.operation = "DIV" /\ b = 0
  IN  /\ fails => res.status = "err" /\ res.error = "division_by_zero"
      /\ ~fails => res.status = "ok" /\ res.result \in Ints
      /\ req.operation = "ADD" => congruent(a + b)
      /\ req.operation = "SUB" => congruent(a - b)
      /\ req.operation = "MUL" => congruent(a * b)
      /\ req.operation = "DIV" /\ b = -1 => congruent(-a)
      /\ req.operation = "DIV" /\ b \notin {0, -1} => rounded(a - b * res.result)

=============================================================================
