----------------------------- MODULE Dhrystone ------------------------------
(***************************************************************************)
(* The procedures of the Dhrystone program of Segger_pr (main.c, the part  *)
(* that was dhry_1.c and dhry_2.c) as functions of the program's memory:   *)
(* g holds the global variables, the two records the pointers lead to, and *)
(* the elements of the two arrays that are written or read.                *)
(*                                                                         *)
(* Characters are the numbers of their order, strings are the numbers in   *)
(* them: str.at[k] is the character at k, the order of two strings is that *)
(* of their numbers.                                                       *)
(***************************************************************************)
EXTENDS Integers, Sequences

CONSTANTS
    Number_Of_Runs      \* 1000000 in the code

ASSUME RunsAssumption == Number_Of_Runs \in Nat \ {0}

Ident_1 == 0
Ident_2 == 1
Ident_3 == 2
Ident_4 == 3
Ident_5 == 4

Null == "null"
chA == 1
chB == 2
chC == 3
chR == 18
chY == 25

(* The strings: SOME STRING; 1'ST, 2'ND and 3'RD STRING, with their order  *)
(* and their characters 2 and 3 ("DHRYSTONE ...").                         *)
Str(n) == [order |-> n, at |-> [k \in {2, 3} |-> IF k = 2 THEN chR ELSE chY]]
SomeString == Str(4)
FirstString == Str(1)
SecondString == Str(2)
ThirdString == Str(3)
NoString == Str(0)

(* Rec_Type: the variant in use is var_1 everywhere.                       *)
Rec_Type(ptr, discr, enum, int, str) ==
    [Ptr_Comp |-> ptr, Discr |-> discr, Enum_Comp |-> enum, Int_Comp |-> int, Str_Comp |-> str]

(* Static storage is zero.  Indexes of Arr_1_Glob and Arr_2_Glob in use.   *)
Zeroed ==
    [Ptr_Glob |-> Null, Next_Ptr_Glob |-> Null, Int_Glob |-> 0, Bool_Glob |-> 0,
     Ch_1_Glob |-> 0, Ch_2_Glob |-> 0,
     Arr_1_Glob |-> [k \in 0..24 |-> 0],
     Arr_2_Glob |-> [k \in (0..24) \X (0..24) |-> 0],
     rec |-> [p \in {"t1", "t2"} |-> Rec_Type(Null, Ident_1, Ident_1, 0, NoString)]]

Initialized(g) ==
    [g EXCEPT !.Next_Ptr_Glob = "t1", !.Ptr_Glob = "t2",
              !.rec["t2"] = Rec_Type("t1", Ident_1, Ident_3, 40, SomeString),
              !.Arr_2_Glob[<<8, 7>>] = 10]

-----------------------------------------------------------------------------
Proc_7(int_1, int_2) == int_2 + (int_1 + 2)

(* Func_1 returns Ident_2 and writes Ch_1_Glob when the two are equal.     *)
Func_1(ch_1, ch_2) == IF ch_1 # ch_2 THEN Ident_1 ELSE Ident_2
Func_1Writes(g, ch_1, ch_2) == IF ch_1 # ch_2 THEN g ELSE [g EXCEPT !.Ch_1_Glob = ch_1]

(* The loop of Func_2 goes on until Func_1 has said Ident_1, and Ch_Loc is *)
(* then 'A', so that only the order of the strings is left to ask for.     *)
Func_2Returns(str_1, str_2) == Func_1(str_1.at[2], str_2.at[3]) = Ident_1
Func_2(str_1, str_2) == IF str_1.order > str_2.order THEN 1 ELSE 0
Func_2Writes(g, str_1, str_2) ==
    IF str_1.order > str_2.order THEN [g EXCEPT !.Int_Glob = 3 + 7] ELSE g

Func_3(enum) == enum = Ident_3

Proc_6(g, enum) ==
    LET before == IF Func_3(enum) THEN enum ELSE Ident_4
    IN  CASE enum = Ident_1 -> Ident_1
          [] enum = Ident_2 -> IF g.Int_Glob > 100 THEN Ident_1 ELSE Ident_4
          [] enum = Ident_3 -> Ident_2
          [] enum = Ident_5 -> Ident_3
          [] OTHER -> before

Proc_5Keeps(g) == [g EXCEPT !.Bool_Glob = 0]
Proc_5(g) == [g EXCEPT !.Ch_1_Glob = chA, !.Bool_Glob = 0]
Proc_4(g) == [g EXCEPT !.Bool_Glob = IF g.Ch_1_Glob = chA THEN 1 ELSE @, !.Ch_2_Glob = chB]

(* The pointer to set is the component Ptr_Comp of record at.              *)
Proc_3(g, at) ==
    LET linked == IF g.Ptr_Glob = Null THEN g
                  ELSE [g EXCEPT !.rec[at].Ptr_Comp = g.rec[g.Ptr_Glob].Ptr_Comp]
    IN  [linked EXCEPT !.rec[g.Ptr_Glob].Int_Comp = Proc_7(10, g.Int_Glob)]

(* Proc_2 leaves its loop at once unless Ch_1_Glob is not 'A'; Enum_Loc is *)
(* then compared unset.                                                    *)
Proc_2(g, int) == IF g.Ch_1_Glob = chA THEN (int + 10 - 1) - g.Int_Glob ELSE int

Proc_1(g, ptr) ==
    LET next == g.rec[ptr].Ptr_Comp
        copied == [g EXCEPT !.rec[next] = g.rec[g.Ptr_Glob]]
        fives == [copied EXCEPT !.rec[ptr].Int_Comp = 5]
        joined == [fives EXCEPT !.rec[next].Int_Comp = fives.rec[ptr].Int_Comp,
                                !.rec[next].Ptr_Comp = fives.rec[ptr].Ptr_Comp]
        third == Proc_3(joined, next)
        sixth == [third EXCEPT
                    !.rec[next].Enum_Comp = Proc_6(third, third.rec[ptr].Enum_Comp),
                    !.rec[next].Ptr_Comp = third.rec[third.Ptr_Glob].Ptr_Comp,
                    !.rec[next].Int_Comp = Proc_7(6, 10)]
    IN  IF third.rec[next].Discr = Ident_1 THEN sixth
        ELSE [third EXCEPT !.rec[ptr] = third.rec[third.rec[ptr].Ptr_Comp]]

Proc_8(g, int_1, int_2) ==
    LET loc == int_1 + 5
        arr_1 == [g.Arr_1_Glob EXCEPT ![loc] = int_2, ![loc + 1] = int_2, ![loc + 15] = loc]
        row == [i \in DOMAIN g.Arr_2_Glob |->
                    IF i \in {<<loc, loc>>, <<loc, loc + 1>>} THEN loc ELSE g.Arr_2_Glob[i]]
    IN  [g EXCEPT !.Arr_1_Glob = arr_1,
                  !.Arr_2_Glob = [row EXCEPT ![<<loc, loc - 1>>] = @ + 1,
                                             ![<<loc + 10, loc>>] = arr_1[loc]],
                  !.Int_Glob = 5]
=============================================================================
