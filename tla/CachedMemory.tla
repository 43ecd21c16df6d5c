---------------------------- MODULE CachedMemory ----------------------------
(***************************************************************************)
(* What a write-back cache promises to the core in front of it and to the  *)
(* memory behind it.  A request is accepted only when the one before it is *)
(* done; a read returns what the program last wrote; lines reach the       *)
(* memory at any time but only with current contents, and have reached it  *)
(* when a writeback or a flush is done.  After an invalidate, or a failure *)
(* of the bus, nothing is promised about the words of the line.            *)
(***************************************************************************)
CONSTANTS
  Addr,       (* the words                                                  *)
  Line(_),    (* the line of a word                                         *)
  Data,       (* the contents of a word                                     *)
  Unknown,    (* no promise is made about this word                         *)
  InitMem,    (* the memory at first                                        *)
  Request,    (* [op, addr, data]                                           *)
  NoRequest,
  Failures    (* whether the memory may fail                                *)

VARIABLES
  pending,    (* the request in hand                                        *)
  done,       (* it is answered now                                         *)
  value,      (* with this word                                             *)
  failed,     (* and with an error                                          *)
  arch,       (* what the program last wrote                                *)
  mem         (* the memory                                                 *)

vars == <<pending, done, value, failed, arch, mem>>

Written(r) ==
  CASE r.op = "wr"    -> [arch EXCEPT ![r.addr] = r.data]
    [] r.op = "inval" -> [a \in Addr |-> IF Line(a) = Line(r.addr) THEN Unknown ELSE arch[a]]
    [] OTHER          -> arch

(* What an answer means, in the state in which it is given.                *)
InMemory(a) == arch[a] \in {Unknown, mem[a]}

AnswerRight ==
  done =>
    /\ pending # NoRequest
    /\ pending.op = "rd" /\ ~failed => arch[pending.addr] \in {Unknown, value}
    /\ pending.op = "wb" =>
         \A a \in Addr : Line(a) = Line(pending.addr) => InMemory(a)
    /\ pending.op = "flush" => \A a \in Addr : InMemory(a)

Init ==
  /\ pending = NoRequest
  /\ done = FALSE
  /\ value \in Data
  /\ failed = FALSE
  /\ arch = InitMem
  /\ mem = InitMem

(* The answer given in the next state, if any, is right.                   *)
MayAnswer == done' \in BOOLEAN /\ value' \in Data /\ AnswerRight'

Accept(r) ==
  /\ pending = NoRequest \/ done
  /\ pending' = r
  /\ arch' = Written(r)
  /\ failed' = FALSE
  /\ UNCHANGED mem
  /\ MayAnswer

Retire ==
  /\ done
  /\ pending' = NoRequest
  /\ failed' = FALSE
  /\ UNCHANGED <<arch, mem>>
  /\ MayAnswer

Work ==
  /\ ~done
  /\ UNCHANGED <<pending, failed, arch, mem>>
  /\ MayAnswer

(* One line goes to the memory, with what the program last wrote.          *)
WriteLine(l) ==
  /\ ~done
  /\ mem' \in [Addr -> Data]
  /\ \A a \in Addr : IF Line(a) = l THEN arch[a] \in {Unknown, mem'[a]}
                                    ELSE mem'[a] = mem[a]
  /\ UNCHANGED <<pending, failed, arch>>
  /\ MayAnswer

(* The bus fails on a line: the request in hand will be answered with an   *)
(* error.                                                                  *)
Fail(l) ==
  /\ Failures /\ ~done /\ pending # NoRequest
  /\ arch' = [a \in Addr |-> IF Line(a) = l THEN Unknown ELSE arch[a]]
  /\ failed' = TRUE
  /\ UNCHANGED <<pending, mem>>
  /\ MayAnswer

Next ==
  \/ \E r \in Request : Accept(r)
  \/ Retire \/ Work
  \/ \E a \in Addr : WriteLine(Line(a)) \/ Fail(Line(a))

Spec == Init /\ [][Next]_vars
=============================================================================
