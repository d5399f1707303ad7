-------------------------- MODULE MCFifoCalculator --------------------------
(***************************************************************************)
(* Small instances of module FifoCalculator for TLC.                       *)
(***************************************************************************)
EXTENDS FifoCalculator

\* With ints of 3 bits, -4 .. 3: overflow, the omitted result 0 after another
\* result, the quotient that overflows, an error, and a quotient to round.
Edges ==
  << [operation |-> "ADD", operand1 |-> 3,  operand2 |-> 1],
     [operation |-> "SUB", operand1 |-> 2,  operand2 |-> 2],
     [operation |-> "DIV", operand1 |-> -4, operand2 |-> -1],
     [operation |-> "DIV", operand1 |-> 1,  operand2 |-> 0],
     [operation |-> "MUL", operand1 |-> -3, operand2 |-> 3],
     [operation |-> "DIV", operand1 |-> -3, operand2 |-> 2] >>

\* The n-th request of the i-th run.
EdgeOf == [id \in RequestIds |-> Edges[MaxRequests * (id[1] - 1) + id[2]]]

\* The worker's arithmetic over all operands of this width.
ASSUME EveryOperand ==
  \A req \in Request : IsAnswer(req, process_operation_req(req))

=============================================================================
