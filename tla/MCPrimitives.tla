----------------------------- MODULE MCPrimitives -----------------------------
(* The components that share no state with any other, checked in one run: *)
(* a sequence_t<uint8_t> pair called by three threads and a once_t by two *)
(* (atomics.hpp), the command line parser of args.hpp, and two slices of  *)
(* slice.hpp used by one thread, a buffer_t<int, 3> with its one         *)
(* producer and one consumer, a stack_t<int, 3> two threads push onto,    *)
(* and the atomic_refs of an MSVC build.  Interleaving                    *)
(* steps of components without shared state adds nothing but states, so  *)
(* a behaviour exercises one of them, chosen by `part` at the start, and   *)
(* the others stay in their initial state.                                 *)
EXTENDS Integers, Sequences, SequencesExt

CONSTANTS t1, t2, t3, s1, s2, l1, l2, v1, v2, x, y, Junk, NULL

VARIABLES part,
          seq, spc, dst, snap, sresult, sopsLeft,
          flag, oresult, oopsLeft,
          value_, id_, argv0_, argv_, list, apc, arg, hasShort, pos, error,
          input, named, call, calls,
          list_, node, heap, lpc, op, it, stop, at, before, outcome, lcalls,
          head, tail, data, ppc, ptail, pitem, presult, cpc, cop, chead,
          ctail, citem, cok, cresult, fifo, expect, ropsLeft,
          kcount, kdata, kpc, kop, kitem, kslot, kresult, kstack, kexpect,
          knet, kunsafe, kopsLeft,
          xref, xpc, xop, xloc, xarg, xexp, xold, xresult, xabs, xwant, xopsLeft

MCThreads == {t1, t2}

Counter == INSTANCE Sequence WITH Threads <- {t1, t2, t3}, Seqs <- {s1, s2},
          Width <- 8, Seeds <- {0, 254}, MaxOps <- 5,
          pc <- spc, result <- sresult, opsLeft <- sopsLeft

Gate == INSTANCE Once WITH Threads <- MCThreads, MaxOps <- 5,
          result <- oresult, opsLeft <- oopsLeft

(* Options declared as a program would: a counter -v/--vo (declared with  *)
(* its dashes, which add_option strips), -o/--o taking a value, a flag -f *)
(* with no long form, and a help-only group heading with neither.          *)
Option(c, hasId, id, counter, usage) ==
    [code |-> c, hasId |-> hasId, id |-> id, counter |-> counter, usage |-> usage]
MCDecl == << Option("v", TRUE, <<"-", "-", "v", "o">>, TRUE, FALSE),
             Option("o", TRUE, <<"o">>, FALSE, TRUE),
             Option("f", FALSE, <<>>, FALSE, FALSE),
             Option("nul", FALSE, <<>>, FALSE, FALSE) >>

(* Thirteen tokens covering every branch of parse: terminator, operand, long and   *)
(* short names, `=value` inline and in a cluster, a value taken from the  *)
(* next entry, a single-dash token that is a long id, unknown names, a   *)
(* counter given a value.                                                *)
MCTokens == { <<"-", "-">>, <<"p">>, <<"-", "v">>, <<"-", "v", "o">>,
              <<"-", "-", "v", "o">>, <<"-", "o">>, <<"-", "o", "=", "p">>,
              <<"-", "-", "o", "=">>, <<"-", "f", "v">>, <<"-", "f", "=">>,
              <<"-", "-", "f">>, <<"-", "o", "v">>, <<"-", "-", "v", "o", "=", "p">> }

Cli == INSTANCE Args WITH Decl <- MCDecl, NoCode <- "nul",
          Argvs <- {<<>>} \cup {<<"prog">> \o t : t \in BoundedSeq(MCTokens, 3)},
          Nums <- {0, 2}, Texts <- {<<"d">>}, MaxCalls <- 1, pc <- apc

Lists == INSTANCE Slice WITH Slices <- {l1, l2}, Values <- {v1, v2},
          MaxNodes <- 6, MaxCalls <- 3, pc <- lpc, calls <- lcalls

Ring == INSTANCE RingBuffer WITH Items <- {10, 20}, S <- 3, ConsumerOps <- {"pull", "pop"},
          MaxOps <- 6, Junk <- 0, NULL <- -1, opsLeft <- ropsLeft

(* Two threads pushing past the capacity of a stack of three slots.       *)
Pushes == INSTANCE Stack WITH Threads <- MCThreads, Items <- {v1, v2}, S <- 3,
          Ops <- {"push"}, MaxOps <- 5, SizeModulus <- 2^30,
          count <- kcount, data <- kdata, pc <- kpc, op <- kop, item <- kitem,
          slot <- kslot, result <- kresult, stack <- kstack, expect <- kexpect,
          net <- knet, unsafe <- kunsafe, opsLeft <- kopsLeft

(* An MSVC build: x, a 4-byte unsigned both threads use (Interlocked      *)
(* path), and y, a 1-byte unsigned t1 alone uses (plain fallback); every  *)
(* member and operator.  Operands keep x away from 0 and 2^32.            *)
\* Every member and operator (AllOps of AtomicRef).
MCRefOps == {"load", "store", "exchange", "cas", "fetch_add", "fetch_sub", "inc",
             "post_inc", "dec", "post_dec", "assign", "add_assign", "sub_assign"}

Refs == INSTANCE AtomicRef WITH Threads <- MCThreads, Locs <- {x, y},
          Size <- [l \in {x, y} |-> IF l = x THEN 4 ELSE 1], MSVC <- TRUE,
          Uses <- [t \in MCThreads |-> IF t = t1 THEN {x, y} ELSE {x}], Ops <- MCRefOps,
          Values <- {100, 102}, Deltas <- {1, 2}, Expected <- {100, 102},
          InitVal <- [l \in {x, y} |-> 100], MaxOps <- 3,
          ref <- xref, pc <- xpc, op <- xop, loc <- xloc, arg <- xarg, exp <- xexp,
          old <- xold, result <- xresult, abs <- xabs, want <- xwant, opsLeft <- xopsLeft

svars == <<seq, spc, dst, snap, sresult, sopsLeft>>
ovars == <<flag, oresult, oopsLeft>>
avars == <<value_, id_, argv0_, argv_, list, apc, arg, hasShort, pos, error,
           input, named, call, calls>>

lvars == <<list_, node, heap, lpc, op, it, stop, at, before, outcome, lcalls>>

rvars == <<head, tail, data, ppc, ptail, pitem, presult, cpc, cop, chead,
           ctail, citem, cok, cresult, fifo, expect, ropsLeft>>

kvars == <<kcount, kdata, kpc, kop, kitem, kslot, kresult, kstack, kexpect,
           knet, kunsafe, kopsLeft>>

xvars == <<xref, xpc, xop, xloc, xarg, xexp, xold, xresult, xabs, xwant, xopsLeft>>

vars == <<part, svars, ovars, avars, lvars, rvars, kvars, xvars>>

(* Outside its own part, a sequence starts at 0, not at every seed.        *)
Init ==
    /\ part \in {"sequence", "once", "args", "slice", "ring", "stack", "aref"}
    /\ Counter!Init /\ Gate!Init /\ Cli!Init /\ Lists!Init /\ Ring!Init
    /\ Pushes!Init /\ Refs!Init
    /\ part # "sequence" => seq = [s \in {s1, s2} |-> 0]

CounterStep == part = "sequence" /\ Counter!Next /\ UNCHANGED <<part, ovars, avars, lvars, rvars, kvars, xvars>>
GateStep == part = "once" /\ Gate!Next /\ UNCHANGED <<part, svars, avars, lvars, rvars, kvars, xvars>>
CliStep == part = "args" /\ Cli!Next /\ UNCHANGED <<part, svars, ovars, lvars, rvars, kvars, xvars>>
SliceStep == part = "slice" /\ Lists!Next /\ UNCHANGED <<part, svars, ovars, avars, rvars, kvars, xvars>>
RingStep == part = "ring" /\ Ring!Next /\ UNCHANGED <<part, svars, ovars, avars, lvars, kvars, xvars>>
StackStep == part = "stack" /\ Pushes!Next /\ UNCHANGED <<part, svars, ovars, avars, lvars, rvars, xvars>>
RefStep == part = "aref" /\ Refs!Next /\ UNCHANGED <<part, svars, ovars, avars, lvars, rvars, kvars>>

Next == CounterStep \/ GateStep \/ CliStep \/ SliceStep \/ RingStep \/ StackStep \/ RefStep

Spec == Init /\ [][Next]_vars

TypeOK == Counter!TypeOK /\ Gate!TypeOK /\ Cli!TypeOK /\ Lists!TypeOK /\ Ring!TypeOK

\* Args: parse leaves every option as the command line named it (Args.tla).
ParseAgreesWithCommandLine == Cli!ParseAgreesWithCommandLine

\* Args: set_if_unset never overrides the command line (Args.tla).
DefaultsKeepCommandLine == Cli!DefaultsKeepCommandLine

\* Ring buffer: head_ and tail_ stay slot indices and the slots hold items
\* or the junk of a slot never written (RingBuffer.tla).
RingTypeOK == Ring!TypeOK

\* Ring buffer: the consumer never reads a slot the producer has not
\* published (RingBuffer.tla).
ReadsPublished == Ring!ReadsPublished

\* Slice: an append, prepend or copy of a slice that returns has spliced
\* the other slice in as its name says, also when it copies from itself
\* (Slice.tla).
ReturnsAsReference == Lists!ReturnsAsReference

\* Slice: an assign of a slice that returns leaves the slice holding what
\* the other slice held, also when the slice is assigned to itself
\* (Slice.tla).
AssignHoldsSource == Lists!AssignHoldsSource

\* Stack: push() reports failure exactly when the stack is full (Stack.tla).
PushResultMatches == Pushes!PushResultMatches

\* Stack: when no push is in progress, count_ and data_ hold exactly the
\* items of the successful pushes (Stack.tla).
StackMatchesData == Pushes!StackMatchesData

\* atomic_ref: every call returns what the std::atomic contract says of
\* the call at the point it takes effect (AtomicRef.tla).
ReturnsAsContract == Refs!ReturnsAsContract
=============================================================================
