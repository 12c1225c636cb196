-------------------------------- MODULE Args --------------------------------
(***************************************************************************)
(* The command line parser of src/src/args.hpp: the options a program     *)
(* declares (args::option, chained by add_option), args::parse walking    *)
(* argv, and the setters a program calls after parsing to give defaults.  *)
(*                                                                         *)
(* A string is a sequence of one-character strings; a pointer into argv   *)
(* is the text it points to (argv outlives the options).  One step of     *)
(* parse handles one argv token, or one character of a short cluster.    *)
(* The ghost `named` logs, in order, each option a token named, with the  *)
(* text it took, so that properties can compare the options' state with   *)
(* the command line.                                                      *)
(***************************************************************************)
EXTENDS Integers, Sequences, SequencesExt

CONSTANTS
    Decl,       \* the options in declaration order: [code, hasId, id, counter, usage]
    NoCode,     \* code_ == 0
    Argvs,      \* the argument vectors main may be given (argv0 first)
    Nums,       \* the numbers a program passes to set / set_if_unset
    Texts,      \* the strings a program passes to set / set_if_unset
    MaxCalls    \* bound on the setter calls after parse

Opts == 1 .. Len(Decl)
NoText == "nullptr"
Dash == "-"

VARIABLES
    value_,     \* value_[o]: option o's value_t [index, flag, str, num]
    id_,        \* id_[o] after add_option stripped its dashes
    argv0_, argv_,
    list,       \* the argv entries parse has not consumed yet
    pc,         \* "idle", "next" (loop head), "short" (cluster loop), "done", "failed"
    arg, hasShort, pos,   \* the token being parsed and the cluster position
    error,      \* the bad_arg parse threw, or "none"
    input,      \* ghost: the argv parse was given
    named,      \* ghost: <<[opt, val]>>, each option the command line named
    call,       \* the setter last called after parse
    calls

vars == <<value_, id_, argv0_, argv_, list, pc, arg, hasShort, pos, error,
          input, named, call, calls>>

Unset == [index |-> 0, flag |-> FALSE, str |-> NoText, num |-> 0]

TypeOK ==
    /\ DOMAIN value_ = Opts
    /\ \A o \in Opts : value_[o].index \in 0 .. 2 /\ value_[o].flag \in BOOLEAN
                      /\ value_[o].num \in Nat
    /\ pc \in {"idle", "next", "short", "done", "failed"}
    /\ calls \in 0 .. MaxCalls

(* value_t::operator=(bool / unsigned / const char * )                     *)
AsFlag(v, f) == [v EXCEPT !.index = 0, !.flag = f]
AsNum(v, n) == [v EXCEPT !.index = 1, !.num = n]
AsStr(v, s) == [v EXCEPT !.index = 2, !.str = s]

(* The accessors of option.                                                *)
IsSet(o) == value_[o].index > 0 \/ value_[o].flag
Deref(o) == IF value_[o].index < 2 THEN NoText ELSE value_[o].str
Count(o) == IF IsSet(o) THEN value_[o].num ELSE 0
Value(o, default) == IF value_[o].index = 1 THEN value_[o].num ELSE default
Text(o) == IF value_[o].index > 1 THEN value_[o].str ELSE <<>>

(* add_option: `if(id_[0] == '-') ++id_;` twice.                           *)
StripDash(s) == IF s # <<>> /\ s[1] = Dash THEN Tail(s) ELSE s

Init ==
    /\ value_ = [o \in Opts |-> Unset]
    /\ id_ = [o \in Opts |-> StripDash(StripDash(Decl[o].id))]
    /\ argv0_ = <<>> /\ argv_ = <<>> /\ list = <<>>
    /\ pc = "idle" /\ arg = <<>> /\ hasShort = FALSE /\ pos = 1
    /\ error = "none" /\ input = <<>> /\ named = <<>>
    /\ call = "none" /\ calls = 0

(* The first declared option an `op = first_; ... op = op->next_` walk     *)
(* stops at, or 0 when it runs off the end.                                *)
First(S) == IF S = {} THEN 0 ELSE Min(S)
LongLookup(keyword) == First({o \in Opts : Decl[o].hasId /\ id_[o] = keyword})
ShortLookup(c) == First({o \in Opts : Decl[o].code = c})

\* Mutant: a counter named again restarts at one.
BumpRestarts(o) == AsNum(value_[o], 1)

(* A counter option named once more: `value_ = 1U` or `count() + 1U`.      *)
Bump(o) == AsNum(value_[o], IF value_[o].index < 1 THEN 1 ELSE Count(o) + 1)

Fail(msg) == /\ pc' = "failed" /\ error' = msg

-----------------------------------------------------------------------------
(* parse                                                                   *)

Parse(in) ==
    /\ pc = "idle"
    /\ input' = in
    /\ IF in = <<>>
         THEN Fail("arguments missing") /\ UNCHANGED <<argv0_, list>>
         ELSE /\ argv0_' = Head(in) /\ list' = Tail(in)
              /\ pc' = "next" /\ UNCHANGED error
    /\ UNCHANGED <<value_, id_, argv_, arg, hasShort, pos, named, call, calls>>

(* `if(arg == "--" || arg == "-") break;`; `if(arg[0] != '-')` (an empty *)
(* argv entry reads its terminating NUL).                                  *)
Terminator(t) == t \in {<<Dash>>, <<Dash, Dash>>}
Operand(t) == t = <<>> \/ t[1] # Dash

(* The loop ends at the end of argv, after "--" or "-", or before the     *)
(* first operand; the operands left are appended to argv_.    *)
EndOfOptions ==
    /\ pc = "next"
    /\ IF list = <<>> THEN TRUE ELSE Operand(Head(list)) \/ Terminator(Head(list))
    /\ argv_' = argv_ \o (IF list # <<>> /\ Terminator(Head(list)) THEN Tail(list)
                                                                 ELSE list)
    /\ list' = <<>> /\ pc' = "done"
    /\ UNCHANGED <<value_, id_, argv0_, arg, hasShort, pos, error, input, named,
                   call, calls>>

(* A token `-x...` or `--x...`: strip the dashes, split at '=', look the  *)
(* keyword up among the ids; a match is handled here, otherwise a `--`    *)
(* token is unknown and a `-` token starts the short-option loop.         *)
OptionToken ==
    /\ pc = "next"
    /\ list # <<>> /\ ~Operand(Head(list)) /\ ~Terminator(Head(list))
    /\ LET tok == Head(list)
           more == Tail(list)
           short == tok[2] # Dash
           a == IF short THEN Tail(tok) ELSE Tail(Tail(tok))
           split == First({i \in DOMAIN a : a[i] = "="})
           keyword == IF split = 0 THEN a ELSE SubSeq(a, 1, split - 1)
           o == LongLookup(keyword)
           Take(val, left) ==
               /\ value_' = [value_ EXCEPT ![o] = val]
               /\ named' = Append(named, [opt |-> o, val |-> val.str])
               /\ list' = left /\ UNCHANGED <<pc, error>>
       IN /\ arg' = a /\ hasShort' = short /\ pos' = 1
          /\ CASE o = 0 /\ ~short ->
                    Fail("unknown argument") /\ UNCHANGED <<value_, named, list>>
               [] o = 0 ->
                    pc' = "short" /\ list' = more /\ UNCHANGED <<value_, named, error>>
               [] Decl[o].counter -> Take(Bump(o), more)
               [] IsSet(o) ->
                    /\ Fail("already used") /\ list' = more /\ UNCHANGED value_
                    /\ named' = Append(named, [opt |-> o, val |-> NoText])
               [] ~Decl[o].usage /\ split # 0 ->
                    Fail("invalid value") /\ UNCHANGED <<value_, named, list>>
               [] ~Decl[o].usage -> Take(AsFlag(value_[o], TRUE), more)
               [] split # 0 -> Take(AsStr(value_[o], SubSeq(a, split + 1, Len(a))), more)
               [] more = <<>> ->
                    Fail("missing value") /\ UNCHANGED <<value_, named, list>>
               [] OTHER -> Take(AsStr(value_[o], Head(more)), Tail(more))
    /\ UNCHANGED <<id_, argv0_, argv_, input, call, calls>>

(* One character of a short cluster `-abc`: look its code up; a counter   *)
(* counts, a flag is set, an option with a usage takes the next argv.     *)
ShortOption ==
    /\ pc = "short"
    /\ LET o == ShortLookup(arg[pos])
           Take(val, left) ==
               /\ value_' = [value_ EXCEPT ![o] = val]
               /\ named' = Append(named, [opt |-> o, val |-> val.str])
               /\ list' = left /\ pos' = pos + 1
               /\ pc' = IF pos + 1 > Len(arg) THEN "next" ELSE "short"
               /\ UNCHANGED error
       IN CASE o = 0 ->
                 Fail("unknown option") /\ UNCHANGED <<value_, named, list, pos>>
            [] Decl[o].counter -> Take(Bump(o), list)
            [] IsSet(o) ->
                 /\ Fail("already used") /\ UNCHANGED <<value_, list, pos>>
                 /\ named' = Append(named, [opt |-> o, val |-> NoText])
            [] ~Decl[o].usage -> Take([value_[o] EXCEPT !.flag = TRUE], list)
            [] list = <<>> ->
                 Fail("missing value") /\ UNCHANGED <<value_, named, list, pos>>
            [] OTHER -> Take(AsStr(value_[o], Head(list)), Tail(list))
    /\ UNCHANGED <<id_, argv0_, argv_, arg, hasShort, input, call, calls>>

-----------------------------------------------------------------------------
(* The setters a program calls after a successful parse.  Those taking a  *)
(* string throw "usage missing" on an option without a usage.             *)

Called(name, o, val) ==
    /\ value_' = [value_ EXCEPT ![o] = val]
    /\ call' = name /\ calls' = calls + 1
    /\ UNCHANGED <<id_, argv0_, argv_, list, pc, arg, hasShort, pos, error,
                   input, named>>

CanCall == pc = "done" /\ calls < MaxCalls

SetNum(o, n) ==
    /\ CanCall
    /\ LET v == value_[o]
           f == IF v.index < 1 THEN [v EXCEPT !.flag = n > 0] ELSE v
       IN Called("set", o, IF v.index < 2 THEN [f EXCEPT !.num = n] ELSE f)

(* A text setter on an option declared without a usage throws            *)
(* bad_arg("usage missing") before it touches the value.                  *)
UsageMissing(name) ==
    /\ pc' = "failed" /\ error' = "usage missing"
    /\ call' = name /\ calls' = calls + 1
    /\ UNCHANGED <<value_, id_, argv0_, argv_, list, arg, hasShort, pos,
                   input, named>>

SetText(o, s) ==
    /\ CanCall
    /\ IF Decl[o].usage THEN Called("set", o, AsStr(value_[o], s))
                         ELSE UsageMissing("set")

\* Mutant: the default also replaces a flag the command line set.
SetIfUnsetNumIgnoresFlag(o, n) ==
    /\ CanCall
    /\ LET v == value_[o]
       IN Called("set_if_unset", o,
                 IF v.index < 1 THEN [v EXCEPT !.flag = n > 0, !.num = n] ELSE v)

SetIfUnsetNum(o, n) ==
    /\ CanCall
    /\ LET v == value_[o]
       IN Called("set_if_unset", o,
                 IF v.index < 1 /\ ~v.flag THEN [v EXCEPT !.flag = n > 0, !.num = n] ELSE v)

SetIfUnsetText(o, s) ==
    /\ CanCall
    /\ IF Decl[o].usage
          THEN Called("set_if_unset", o,
                      IF value_[o].index < 1 THEN AsStr(value_[o], s) ELSE value_[o])
          ELSE UsageMissing("set_if_unset")

\* Parse has returned or thrown, and the program makes no more calls.
Done ==
    /\ pc \in {"done", "failed"} /\ (pc = "failed" \/ calls = MaxCalls)
    /\ UNCHANGED vars

Next ==
    \/ \E in \in Argvs : Parse(in)
    \/ EndOfOptions \/ OptionToken \/ ShortOption
    \/ \E o \in Opts, n \in Nums : SetNum(o, n) \/ SetIfUnsetNum(o, n)
    \/ \E o \in Opts, s \in Texts : SetText(o, s) \/ SetIfUnsetText(o, s)
    \/ Done

Spec == Init /\ [][Next]_vars

-----------------------------------------------------------------------------
(* Properties                                                              *)

Named(o) == {i \in DOMAIN named : named[i].opt = o}
Repeated == \E i, j \in DOMAIN named :
                i < j /\ named[i].opt = named[j].opt /\ ~Decl[named[i].opt].counter

(* When parse has returned or thrown, every option's state agrees with    *)
(* how often the command line named it: a counter's count() is the       *)
(* number of times its code or id appeared, long or in a cluster; any     *)
(* other option is set iff it was named, holds the text it was first      *)
(* given, and parse threw "already used" exactly when it was named twice; *)
(* the operands parse kept are the tail of argv.                          *)
ParseAgreesWithCommandLine ==
    pc \in {"done", "failed"} /\ call = "none" =>
        /\ (error = "already used") <=> Repeated
        /\ \A o \in Opts :
             /\ IsSet(o) <=> Named(o) # {}
             /\ Decl[o].counter => Count(o) = Cardinality(Named(o))
             /\ Decl[o].usage /\ Named(o) # {} =>
                    Deref(o) = named[Min(Named(o))].val
        /\ pc = "done" => IsSuffix(argv_, input)

View(o) == <<IsSet(o), Count(o), Value(o, 0), Deref(o)>>

(* A default given with set_if_unset after parse never changes what an    *)
(* option the command line named reports, whichever of the parse paths   *)
(* (long id, short code, counter, flag, value) set it.                    *)
DefaultsKeepCommandLine ==
    [][call' = "set_if_unset" =>
         \A o \in {named[i].opt : i \in DOMAIN named} : View(o)' = View(o)]_vars
=============================================================================
