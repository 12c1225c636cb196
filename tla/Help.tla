-------------------------------- MODULE Help --------------------------------
(***************************************************************************)
(* args::help (src/src/args.hpp 307-389): the option listing of a program *)
(* that declared Decl.  A long id or a usage is its length; a help text   *)
(* is a sequence of characters, of which only blank, tab and newline are  *)
(* told apart.  help keeps `hp` as the output column: it pads the prefix  *)
(* of each option to column 30 and breaks the text at a blank past       *)
(* column 75.  The ghost `col` is the column the output is really at.    *)
(*                                                                         *)
(* One step prints the prefix of one option; one step prints one         *)
(* character of its help text.                                            *)
(***************************************************************************)
EXTENDS Integers, Sequences

CONSTANTS
    Decls,      \* the option lists a program may declare, in order
    NoHelp      \* help_ == nullptr

Sp == " "
Tab == "\t"
Nl == "\n"

VARIABLES
    decl,       \* the options declared (first_ .. last_)
    pc,         \* "options" (loop head), "text" (help text loop), "done", "thrown"
    op,         \* the option being printed, an index of decl
    hs,         \* the character of its help text to print next
    hp,         \* hp, help's column count
    col         \* ghost: the column of the output

vars == <<decl, pc, op, hs, hp, col>>

TypeOK ==
    /\ pc \in {"options", "text", "done", "thrown"}
    /\ op \in 1 .. Len(decl) + 1
    /\ hp \in Nat /\ col \in Nat

(* bad_arg::str_size(cp, max): the length of cp, or a throw when it is    *)
(* longer than max.                                                       *)
StrSize(n, max) == IF n > max THEN -1 ELSE n

(* The usage lines and the descriptions end with a newline, and so does  *)
(* "\nOptions:\n".                                                        *)
Init ==
    /\ decl \in Decls
    /\ pc = "options" /\ op = 1 /\ hs = 1
    /\ hp = 0 /\ col = 0

(* One turn of `while(op != nullptr)`, up to the padding: the short form  *)
(* with the count hp gives it and the width it prints, then the long     *)
(* form, then `--hp` when there is none, then the pad to column 30.  An   *)
(* option declared with code 0 streams code_ as a NUL, which takes no     *)
(* column.                                                                *)
Prefix ==
    LET o == decl[op]
        u == StrSize(o.usage, 255)
        i == StrSize(o.id, 64)
        short == CASE o.code /\ o.id > 0 -> <<6, 6>>
                   [] o.id > 0           -> <<2, 2>>
                   [] o.usage > 0        -> <<5 + u, IF o.code THEN 5 + u ELSE 4 + u>>
                   [] o.code             -> <<5, 4>>
        long == CASE o.id > 0 /\ o.usage > 0 -> <<i + u + 3, i + u + 3>>
                  [] o.id > 0                -> <<i + 2, i + 2>>
                  [] OTHER                   -> <<-1, 0>>
        h == short[1] + long[1]
        w == short[2] + long[2]
    IN /\ pc = "options" /\ op <= Len(decl)
       /\ CASE o.help = NoHelp ->
                 op' = op + 1 /\ UNCHANGED <<pc, hs, hp, col>>
            [] ~o.code /\ o.id = 0 /\ o.usage = 0 ->
                 \* a grouping separator: "\n" help ":\n"
                 op' = op + 1 /\ col' = 0 /\ UNCHANGED <<pc, hs, hp>>
            [] u < 0 \/ (o.id > 0 /\ i < 0) ->
                 pc' = "thrown" /\ UNCHANGED <<op, hs, hp, col>>
            [] OTHER ->
                 /\ pc' = "text" /\ hs' = 1 /\ hp' = 30
                 /\ col' = IF h > 29 THEN 30 ELSE w + 30 - h
                 /\ UNCHANGED op
       /\ UNCHANGED decl

(* The next tab stop after column c: a tab at a stop still moves on.      *)
TabStop(c) == LET c1 == IF c % 8 = 0 THEN c + 1 ELSE c
              IN ((c1 + 7) \div 8) * 8

(* One turn of the loop over the help text.                              *)
TextChar ==
    LET ch == decl[op].help[hs] IN
    /\ pc = "text" /\ hs <= Len(decl[op].help)
    /\ CASE ch = Nl \/ (ch \in {Sp, Tab} /\ hp > 75) ->
              hp' = 30 /\ col' = 30
         [] ch = Tab ->
              hp' = TabStop(hp) /\ col' = col + TabStop(hp) - hp
         [] OTHER ->
              col' = col + 1 /\ UNCHANGED hp
    /\ hs' = hs + 1
    /\ UNCHANGED <<decl, pc, op>>

(* The newline after the text, and op = op->next_.                        *)
EndOption ==
    /\ pc = "text" /\ hs > Len(decl[op].help)
    /\ pc' = "options" /\ op' = op + 1 /\ col' = 0
    /\ UNCHANGED <<decl, hs, hp>>

Finish ==
    /\ pc = "options" /\ op > Len(decl)
    /\ pc' = "done"
    /\ UNCHANGED <<decl, op, hs, hp, col>>

Done == pc \in {"done", "thrown"} /\ UNCHANGED vars

Next == Prefix \/ TextChar \/ EndOption \/ Finish \/ Done

Spec == Init /\ [][Next]_vars

-----------------------------------------------------------------------------
(* Properties                                                              *)

(* help aligns the descriptions at column 30 and breaks them at a blank   *)
(* past column 75 by its count hp (the tests at args.hpp 357-368), and    *)
(* resets hp to 30 after printing 30 blanks: hp is meant to be the output *)
(* column.  Whenever help is about to test the next character, hp is the *)
(* column the output is at.                                              *)
ColumnTracked == pc = "text" => hp = col

(* help breaks a description at a blank or tab once it is past column 75  *)
(* (args.hpp 368), so that no line runs on: whenever it prints a blank or *)
(* a tab with the output past column 75, it starts a new line instead.    *)
BreaksPastMargin ==
    [][pc = "text" /\ hs <= Len(decl[op].help) /\ decl[op].help[hs] \in {Sp, Tab}
       /\ col > 75 => col' = 30]_vars
====
