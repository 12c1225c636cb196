# TLA+ models of moderncli's atomic primitives, option parser, help listing and slice

This directory holds TLA+ models of the concurrent core of moderncli,
`src/src/atomics.hpp` (namespace `tycho::atomic`), and of its command line
parser and its help listing, `src/src/args.hpp`, and of the list wrapper `src/src/slice.hpp`. It also holds the TLC configurations that check
those models. Every definition is translated from those headers.
`PROJECT.json` maps each definition to the lines it models.

## 1. Inventory of the system

`atomics.hpp` has six independent components. No component calls another.
Caller threads share them, and every call runs on the calling thread.

| component | state | operations that change state | hard behaviour |
|---|---|---|---|
| `dictionary_t<K,V,S>` (248-484) | `table_[S]` atomic bucket heads; heap nodes `{key, value, atomic next}`; `atomic<size_t> count_` | `insert`, `emplace` (CAS prepend loop); `insert_or_assign`, `try_emplace` (scan, then insert); `remove` (scan with a trailing `prev`, plain-store unlink, `delete`, `fetch_sub`); `clear` (per-bucket `exchange`, free chain, `count_ = 0`); moves | concurrent CAS loops; spurious failure of `compare_exchange_weak`; unlink and reclaim with no safe reclamation; count updated apart from the chains |
| `stack_t<T,S>` (90-162) | `atomic<int> count_`, `T data_[S]` | `push` (fetch_add, check, roll back, write slot); `pull`/`pop` (fetch_sub, check, roll back, read slot) | slot claimed before it is written; signed/unsigned comparison; indices at the bounds |
| `buffer_t<T,S>` (164-246) | `atomic<unsigned> head_, tail_`, `T data_[S]` | `push` (write slot, publish tail); `pull`/`pop` (read slot, publish) | one producer and one consumer; index wrap mod S |
| `sequence_t<T>` (25-67) | `atomic<T> seq_`, with T unsigned | `operator*` and conversion (fetch_add); `set`, `operator=`, copy | wrap at 2^w |
| `once_t` (69-88) | `atomic<bool> flag_` | test (`exchange(false)`); `reset` | exactly one winner per arming |
| `atomic_ref<T>` (487-669) | a caller's integral location | load/store/exchange/CAS/fetch_add/fetch_sub and compound operators; MSVC intrinsics, with a plain fallback for 1- and 2-byte types | the fallback is not atomic |

These properties make the components correct. They come from spec.md sections 3, 4 and 8.

- **Dictionary:**
  - every call is linearizable;
  - an insert that returned true is in the table;
  - `count_` equals the number of reachable nodes at every quiescent point;
  - keys are unique when only `insert_or_assign` and `try_emplace` add;
  - chains are acyclic and made of live nodes;
  - no node is freed twice or read after it is freed (apart from the reader hazard that spec 4.6 documents);
  - every call returns.
- **Stack:** S pushes succeed and the (S+1)-th fails, and pops return what was pushed in LIFO order.
- **Ring buffer:**
  - S-1 pushes succeed;
  - FIFO order;
  - after a pop, a push succeeds again.
- **Sequence:** values read are pairwise distinct.
- **Once:** exactly one reader per arming sees true.
- **atomic_ref:** each member and operator does what the same `std::atomic`
  operation does, at once (spec 4.1).

`args.hpp` is a sequential command line parser (section 4). Its state is:

- the options a program declares, chained by `add_option` in declaration order;
- each option's `value_t` `{index, flag, str, num}`;
- `argv0_` and the operands `argv_`.

Its operations are `parse`, and `set` and `set_if_unset`, which a program
calls after parsing to give defaults. Nothing in spec.md describes it, so its
properties state what its code and names mean: after `parse`, an option
reports how the command line named it, and a default never overrides the
command line.

`slice.hpp` is `tycho::slice<T>`, a `std::list<std::shared_ptr<T>>` with
index-based and slice-to-slice operations, used by one thread. Copies of a
slice share the pointed-to objects. Nothing in spec.md describes it either.

The files under `src/unnamed/` are the logger, the cipher, digest and file
wrappers, build files and docs. `src/test/` holds the tests. None of these is
modelled (see section 8).

## 2. Modules

| module | models |
|---|---|
| `DictionaryAbs` | What `dictionary_t` promises. `entries[k]` is the sequence of values of key k, newest first (plain `insert` may duplicate a key). `pend[t]` is thread t's invoked call that has not taken effect. `ret[t]` is `<<key, answer>>` of its last call. Actions: `Invoke`, `Linearize` (one atomic effect per call), `ClearBucket` (clear empties one bucket at a time, in order, as spec 4.6 allows), and `Read` (find/contains/at). |
| `Dictionary` | The code, with each shared-memory access one step. |
| `MCDictionary` | The model values and small sets for TLC. |
| `Stack`, `MCStack` | `stack_t` (section 3). The push-only check runs inside `MCPrimitives`. |
| `RingBuffer`, `MCRingBuffer` | `buffer_t` (section 3). The passing ring checks run inside `MCPrimitives`. |
| `AtomicRef`, `MCAtomicRef` | `atomic_ref<T>` (section 4). The MSVC check runs inside `MCPrimitives`. |
| `Sequence`, `Once` | `sequence_t<T>` and `once_t` (section 4). |
| `Args` | `args.hpp`: option declaration, `parse`, `set`, `set_if_unset` (section 4). |
| `Slice` | `slice.hpp`: every member that changes the list (section 4a). |
| `Help`, `MCHelp` | `args::help()`: the column arithmetic of the option listing (section 4b). |
| `MCPrimitives` | Checks `Sequence`, `Once`, `Args`, `Slice`, `RingBuffer`, `Stack` and `AtomicRef` in one run (section 4). |

The state of `Dictionary`:

- `table` holds the bucket heads, each a node or NULL.
- `heap` holds the nodes, each `[state: unused/live/freed, key, value, next]`. A freed node keeps its fields, so a use after free reads stale data, as the program would.
- `count` is `count_`, taken mod `SizeModulus` (size_t wraps).
- `pc`, `op`, `key`, `value`, `cur`, `prev`, `nxt`, `made` and `bkt` are each thread's program counter and locals.
- `result` is the value of the last call.
- `unsafe` records each use-after-free and double free.
- `opsLeft` is the bound on calls.

Actions, by the code they model:

- **insert / emplace** (309-321, 342-354):
  - `InsertBegin` does the `new node` and the first load of the head into `made->next`.
  - `InsertCas` is the `compare_exchange_weak` against `made->next`.
  - `InsertSpurious` is a spurious failure of that CAS.
  - `InsertLoad` is a retry's reload.
  - `InsertCount` is `fetch_add` and return.
- **insert_or_assign** (323-340): `AssignBegin` loads the head, then `AssignScan` takes one node per step. A match goes to `AssignWrite`, which assigns the value. `AssignMiss` falls through into the insert steps.
- **try_emplace** (356-372): `TryEmplaceBegin`, then `TryEmplaceScan` (a match returns false). `TryEmplaceMiss` falls through into emplace.
- **find / contains / at** (374-413): `FindBegin`, then `FindScan`; `FindMiss` returns nullopt, false, or the `out_of_range` throw.
- **remove** (415-435):
  - `RemoveBegin`, then `RemoveScan`, which on a match loads `next` and otherwise sets `prev = current`.
  - `RemoveMiss` returns false.
  - `RemoveUnlink` is the plain store to `prev->next` or to the head.
  - `RemoveDelete` is the `delete`.
  - `RemoveCount` is the `fetch_sub`.
- **clear** (297-307): `ClearBegin`, then `ClearExchange` (`exchange(nullptr)`), `ClearFree` (free one node), `ClearNextBucket` and `ClearCount` (`count_.store(0)`).

A node's key never changes, so a scan step reads `current->key` and
`current->next` in one step. Each thread's first shared access (the head
load) is part of its invoke step. A step that dereferences a freed node adds
a record to `unsafe`.

The refinement `Abs == INSTANCE DictionaryAbs WITH ...` maps:

- each key to the values of the live reachable nodes with that key, in chain order;
- `pend` to the call of every thread that is past its invocation and before its linearization point;
- `ret` to the thread's key and answer.

The linearization points are these:

- a successful CAS for the inserts;
- the in-place assign for insert_or_assign;
- the matching scan step, or the miss at the end of the chain, for try_emplace and reads;
- the unlink for remove;
- each bucket's exchange for clear.

`PROPERTY AbsSpec` checks the refinement.

## 3. Stack and RingBuffer

**`Stack`** models `stack_t` (90-162):

- The state is `count` (`count_`, a signed int), `data` (the slots), and the per-thread `pc`, `op`, `item` and `slot` (the index the claim returned).
- Actions:
  - `PushClaim` is `fetch_add`.
  - `PushRollback` is `count >= S` with the int converted to size_t (`AsSize`), followed by `fetch_sub`.
  - `PushWrite` is `data_[count] = item`.
  - `PopClaim` is `fetch_sub`, for `pull` and `pop` alike.
  - `PopRollback` is `count < 0`, followed by `fetch_add`.
  - `PopRead` is `data_[count]`.
- A slot that was never written, or an index outside the array, reads as any value: this is the undefined behaviour.
- Ghost variables:
  - `stack` is the LIFO that spec 4.4 promises;
  - `expect[t]` is what the pending call must return by that LIFO;
  - `net` is the successful pushes minus the successful pops.

**`RingBuffer`** models `buffer_t` (164-246) with one producer and one consumer, the only use spec 4.5 allows:

- The state is `head`, `tail` and `data`, plus the locals of each side.
- Producer actions: `PushLoadTail`, then `PushFull` or `PushLoadHead` (load `head_` and compare), then `PushWrite`, then `PushPublish` (`tail_.store(next)`).
- Consumer actions: `PullLoadHead`, then `PullEmpty` or `PullLoadTail`, then `PullRead`, then `PullPublish`. `PullPublish` is `tail_.store(tail)`, exactly as the code has it, and it returns the item (pull) or the advanced head (pop).
- The ghost `fifo` is the queue the calls promise. Items are integers, because `pop` converts an index to `T`.

## 4. AtomicRef, Sequence, Once and Args

**`AtomicRef`** models `atomic_ref<T>` (487-669) on several locations, each
with its own `sizeof(T)`:

- `MSVC` selects the build.
  - Without `_MSC_VER`, every member is a `__atomic` builtin, one step (`AtomicCall`).
  - On MSVC, 4- and 8-byte types use the Interlocked intrinsics, also one step.
  - On MSVC, 1- and 2-byte types use the plain fallback, where `Plain(l)` holds: `load` and `store` are one access; `exchange`, `fetch_add` and `fetch_sub` read `old` (`PlainRead`) and then write (`PlainWrite`); `compare_exchange_strong` compares and then either writes (`PlainWrite`) or re-reads `ref` into `expected` (`PlainReload`).
- `Member` is the six members.
- `Finish` is what the operators built on them return (498-526):
  - `++x` is `fetch_add(1) + 1`, and `--x` is `fetch_sub(1) - 1`, both with an `auto` return;
  - the postfix forms return the member's value;
  - `=`, `+=` and `-=` return `*this`.
- Ghosts:
  - `abs` is each location if every call took effect at once;
  - `want[t]` is what thread t's last call returns when it takes effect at once, computed by `Contract`, the `std::atomic_ref` meaning.

**`Sequence`** models `sequence_t<T>` (25-67) over several objects and a `Width`-bit T:

- `Read` is `fetch_add(1)`, which `operator*` and `operator T()` both do.
- `Set` is `set` or `operator=(T)`.
- Copy assignment is `CopyLoad` (a load of the source) followed by `CopyStore`. The self-assignment test makes `CopyLoad` a no-op.

**`Once`** models `once_t` (69-88):

- `Test` is `exchange(false)`, by `operator bool` or by `operator!`.
- `Reset` is `store(true)`.

**`Args`** models `args.hpp`:

- Strings are sequences of one-character strings. A pointer into argv is the text it points to, since argv outlives the options.
- `Decl` is the declared options in order. `Init` runs `add_option`, which strips up to two dashes from each id.
- `value_[o]` is option o's `value_t`. `AsFlag`, `AsNum` and `AsStr` are its three assignments. `IsSet`, `Deref`, `Count`, `Value` and `Text` are the accessors.
- `Parse` takes argv0. `EndOfOptions` ends the loop, at the end of argv, at `--` or `-`, or before an operand, and appends the operands to `argv_`.
- `OptionToken` handles one `-x...` or `--x...` token, with every branch of the long lookup and each `bad_arg` it throws: an unknown `--` name, "already used", "invalid value", "missing value". An unmatched single-dash token goes on to `ShortOption`, one character of the cluster per step, which can throw "unknown option".
- After a parse that returned, `SetNum`, `SetText`, `SetIfUnsetNum` and `SetIfUnsetText` are `set` and `set_if_unset` of a number and of a string, and the string forms throw "usage missing" on an option without a usage.
- The ghost `named` logs each option a token named, with the text it took.

**`MCPrimitives`** checks `Sequence`, `Once`, `Args`, `Slice`, `RingBuffer`, a
push-only `Stack` and an MSVC `AtomicRef` in one run. They share no
state with each other or with anything else, so interleaving their steps would
only multiply states. The variable `part` picks one of the seven at the
start. The others stay in their initial state, and each part's
behaviours are exactly those of its own module.

## 4a. Slice

- `node` holds every `std::list` node ever allocated; node n holds a pointer, an index of `heap` (0 is the empty `shared_ptr`). `heap[p]` is the `T` that pointer p owns. `list_[s]` is slice s's sequence of nodes. Two slices that share an element hold distinct nodes with the same pointer, as after `subslice` or `append(other)`.
- An allocation past `MaxNodes` nodes throws `bad_alloc`; `outcome` records how each call ended (`ok`, `bad_alloc`, `out_of_range`).
- One step each: `InsertItem` (`append`, `prepend`, `insert` of a `T`), `AssignItem`, `AppendItems` and `AssignItems` (of an initializer list), `Construct` (`s = slice<T>{...}`, whose constructor assigns each item in turn, allocating a node for each, and so keeps only the last; hazard slice.hpp:33), `EraseIters` (`erase` of one or a range of iterators, `clear`), `EraseRange` (`erase(start, end)` with its range check), `Resize` (growing appends null pointers), `RemoveIf` (`remove`, `remove_if`; the predicate is the set of values it keeps), `WriteAt` (assigning through `operator[]`, which every slice sharing the pointer sees), `Subslice` and `SubsliceIters` (a new list of the shared pointers, assigned to a slice, with each form's range check).
- A dereference of a null pointer (`remove`, `remove_if`, `operator[]` after `resize`) moves to `pc = "crashed"`, where the program stops.
- `append`, `prepend`, `copy` and `assign` of a slice hand its list to `std::copy`. `AppendSlice`, `PrependSlice`, `CopySlice` and `AssignSlice` record the source iterator `it`, its end `stop` and the insert position `at`, all as nodes, fixed when the call is made. `CopyStep` then does one `*out = *first; ++first;` per step, reading the list as it is after the insertion. This is what makes a slice passed to itself behave as the code does:
  - `append(self)` and `copy(self, pos > 0)` keep reading the nodes they add and grow until `bad_alloc`;
  - `prepend(self)` stops at the `begin()` of the call, and `copy(self, 0)` inserts before the range still to read, so both return with the slice doubled.
- `assign` of a slice clears the slice and then starts the copy at `other.begin()`, taken after the clear. `assign(self)` therefore copies nothing and leaves the slice empty (hazard slice.hpp:150, run `slice_assign_self`).

## 4b. Help

`args::help()` (args.hpp 307-389) prints one line per option: a short form (`-c`, `-c, ` or a usage), a long form (`--id` or `--id=usage`), blanks up to column 30, and the help text, broken at a blank or tab past column 75. It keeps its own column count `hp` for the padding and the line breaks.

- An option declared with code 0 streams `code_` as a NUL byte (line 336), which takes no column, so its usage prefix is one column narrower than `-c usage`.
- A long id and a usage are represented by their lengths, and a help text by a sequence of characters of which only blank, tab and newline are told apart. `str_size` throws when an id is longer than 64 characters or a usage longer than 255 (`pc = "thrown"`).
- `Prefix` is one turn of `while(op != nullptr)` up to the padding. It covers an option without help (skipped), a grouping heading (`"\n" help ":\n"`), and the prefix itself. `TextChar` is one character of the text loop, `EndOption` the closing newline and `op = op->next_`, `Finish` the end of the list.
- The ghost variable `col` is the column the output is really at. `hp` is what the code believes it is. `ColumnTracked` says that the two agree whenever the text loop tests a character. `BreaksPastMargin` says that a blank or tab printed past column 75 starts a new line, as the test at line 368 intends.

## 5. Runs

`MaxOps` bounds the number of calls in a behaviour. There are twelve runs.

| run | module | setting | checks | result |
|---|---|---|---|---|
| `dict_insert` | MCDictionary | 2 threads; keys {k1,k2} in 1 bucket; insert, find; MaxOps 4 | NoLostEntries, CountMatches, AbsSpec, CallsReturn | pass |
| `dict_sequential` | MCDictionary | 1 thread; 3 keys in 2 buckets; every operation; MaxOps 4 | TypeOK, ChainsWellFormed, CountMatches, AbsSpec | pass |
| `dict_remove_insert` | MCDictionary | 2 threads; insert, remove on one bucket; MaxOps 3 | NoLostEntries | violation |
| `dict_assign_race` | MCDictionary | 2 threads sharing keys; insert_or_assign, try_emplace, find; MaxOps 3 | UniqueKeys | violation |
| `stack_push_pop` | MCStack | 2 threads; push, pull, pop; S 3; MaxOps 4 | CountBalanced | pass |
| `stack_pop_top` | MCStack | 1 thread; push, pull, pop; MaxOps 3 | PopReturnsTop | violation |
| `ring_fifo` | MCRingBuffer | producer and consumer; pull; MaxOps 3 | PullReturnsFront | violation |
| `aref_promotion` | MCAtomicRef | no `_MSC_VER`; one thread, `++`/`--` on a uint8_t at 255; MaxOps 2 | ReturnsAsContract | violation |
| `seq_once` | MCPrimitives | two sequence_t<uint8_t> seeded at 0 or 254, 3 threads, MaxOps 5; once_t, 2 threads, MaxOps 5; parse of every argv of up to 3 entries from 13 tokens, then one setter; two slices of values {v1,v2}, 3 calls, 6 list nodes; ring buffer with producer and consumer, pull and pop, S 3, MaxOps 6; stack, 2 threads, push only, S 3, MaxOps 5; MSVC atomic_ref, both threads on a 4-byte x, t1 alone on a 1-byte y, every member and operator, MaxOps 3 | ParseAgreesWithCommandLine, RingTypeOK, ReadsPublished, PushResultMatches, StackMatchesData, ReturnsAsContract, DefaultsKeepCommandLine, ReturnsAsReference | pass |
| `help_columns` | MCHelp | every list of one or two options: with or without a code, id of length 0, 3 or 65, usage of length 0 or 4, four help texts | ColumnTracked | violation |
| `help_wrap` | MCHelp | one option of each prefix shape with a description of 46 letters, a blank and a letter | BreaksPastMargin | violation |
| `slice_assign_self` | MCPrimitives | the `seq_once` setting | AssignHoldsSource | violation |

Runs the project checked once and no longer keeps, because the runs are kept
to twelve, one per question:

| run | what TLC found | now |
|---|---|---|
| `dict_clear_insert` | clear's final `count_.store(0)` erases the count of a racing insert for good | hazard atomics.hpp:306 |
| `dict_remove_race` | two racing removes relink a deleted node (ChainsWellFormed) | ChainsWellFormed is checked by `dict_sequential`; hazard atomics.hpp:424 |
| `ring_tail_race` | the consumer's store of the tail it loaded undoes a concurrent push (TailAdvancesOnly) | hazard atomics.hpp:237 |
| `ring_spsc` | the ring buffer's TypeOK and ReadsPublished hold | checked by `seq_once` |
| `stack_push` | PushResultMatches and StackMatchesData hold for two pushing threads | checked by `seq_once` |
| `aref_confined` | ReturnsAsContract holds in the MSVC build; it also checked NoLostUpdate, which the setting made hold by construction (the 4-byte path is one step, and the 1-byte location had one user) | ReturnsAsContract is checked by `seq_once`; hazard atomics.hpp:571 |
| `stack_wedge`, `ring_pop`, `dict_dedup` | the stack wedged at `count_ = -1`, pop returning an index, duplicate keys by plain insert | hazards |

## 6. What the runs show

### Passing runs

- **Lock-free dictionary inserts are correct.** This holds with spurious CAS
  failures and interleaved finds: no insert is lost, `count_` is exact when
  quiescent, the calls linearize, and every call returns.
- **The single-thread dictionary semantics match `DictionaryAbs`**, clear
  across two buckets included. Every chain stays acyclic and made of live nodes.
- **Concurrent pushes claim distinct slots.** Exactly S pushes succeed, and
  failed claims roll back. `seq_once` checks this.
- **`count_` balances with pops.** Pushes, pulls and pops leave `count_` at the
  successful pushes minus the successful pops.
- **The ring buffer's publication order is sound.** The consumer never reads an
  unwritten slot, and the indices stay in range. `seq_once` checks this.
- **`atomic_ref` returns what the contract says** in an MSVC build
  (`ReturnsAsContract`, in `seq_once`). Every member and operator on a 4-byte
  location two threads share, and on a 1-byte location one thread uses
  through the plain fallback, returns what `std::atomic_ref` returns at the
  point the call takes effect, the fallback's reload of `expected` after a
  failed compare included. With the 1-byte location shared, the fallback's
  separate read and write lose updates; the code's own comment calls the
  fallback non-atomic (hazard atomics.hpp:571), so no run states it.
- **`sequence_t` and `once_t`** run in `seq_once` so that their actions are
  exercised, with no property of their own. A read is one `fetch_add` and a
  test one `exchange`: a property that their values are distinct, or that one
  test wins per arming, only restates that step.
- **`args::parse` leaves each option as the command line named it.** This
  holds for every argv of up to three entries drawn from thirteen tokens
  (`ParseAgreesWithCommandLine`):
  - a counter's `count()` is the number of times its code or id appeared;
  - any other option is set exactly when it was named, and holds the text it was given;
  - `already used` is thrown exactly when such an option is named twice;
  - the operands kept are the tail of argv.

  After a parse that throws, the options named before the throw stay set (hazard args.hpp:252).
- **A default given with `set_if_unset` never overrides the command line**
  (`DefaultsKeepCommandLine`). This holds for a counter, a value option, and a
  flag whose short form sets only `value_.flag` and leaves `index` 0.

- **A slice-to-slice call that returns has done what its name says**
  (`ReturnsAsReference`): `append`, `prepend` and `copy(other, pos)` leave
  the slice holding the other slice's pointers at the back, the front, or
  position pos, as the two slices were when the call was made. `assign` is
  checked by `AssignHoldsSource`, which `slice_assign_self` finds violated. This includes `prepend(self)` and `copy(self, 0)`, whose `std::copy`
  reads the list it inserts into. The calls of a slice to itself that never
  return (`append(self)`, `copy(self, pos > 0)`) end in `bad_alloc` and are
  hazard slice.hpp:170.

### Violations

Each violation is a finding in `PROJECT.json`:

- **Dictionary:** remove unlinks with a plain store, not a CAS, and loses a concurrent insert.
- **Dictionary:** `insert_or_assign` and `try_emplace` racing on one key both insert.
- **Stack:** pop reads `data_[count]` with the count from before the decrement. It returns the slot past the top, and on an empty stack it succeeds and leaves `count_ = -1`. After that every push fails, because `int -1 >= size_t S`.
- **Ring buffer:** pull writes `tail_` back instead of advancing `head_`, so the same item comes out forever. `pop` also returns the index instead of the item.
- **help(), `help_columns`:** an option with a short code and a usage and no long id prints `  -c usage` (5 + usage columns, counted right) and then takes the `else --hp` branch (args.hpp:355), meant for a bare `  -c`. Its description starts at column 31 (`ColumnTracked`).
- **help(), `help_wrap`:** the text loop prints an ordinary character without `++hp` (args.hpp:383). `hp` stays at 30 while the line grows, so the test `hp > 75` never fires for ordinary text: a blank at column 76 is printed instead of breaking the line (`BreaksPastMargin`). The tab stops use the same stale count.
- **Slice, `slice_assign_self`:** `assign(other)` clears `list_` and then copies `other.list_`. For `a.assign(a)` the list is already empty, so the call returns with the slice empty (`AssignHoldsSource`, slice.hpp:150).
- **atomic_ref:** for a `T` narrower than `int`, `++` returns `fetch_add(1) + 1` as an `int`. On a `uint8_t` at 255 it returns 256 while 0 is stored; `--` at 0 returns -1 while 255 is stored. The result is not the new value of the location.

### Bounds

- **Help:** ids of length 3 and 65 reach the normal path and the `str_size` throw; a usage of length 4 reaches the usage branches. The four texts (no help, a letter, a tab between letters, a newline between letters) reach every branch of the text loop. One or two options put a heading or a skipped option before a real one. `help_wrap` gives one option of each prefix shape a description of 46 letters, a blank and a letter: printed from column 30, the blank falls at column 76, the first column past the margin.

- **Dictionary:**
  - Two threads and one shared bucket are the smallest setting in which every dictionary race happens. Each violation appears within 3-4 calls.
  - Two keys in one bucket make scans pass over a non-matching node. Two buckets make clear iterate.
- **Stack and ring buffer:** S = 3 is the smallest capacity the code allows (`static_assert(S > 2)`). Five pushes fill the stack and make both threads fail a claim at the same time. Six ring calls fill the buffer and exercise both full and empty.
- **`SizeModulus`** (the size_t wrap) is 256 for the dictionary count, larger than any reachable count. It is 2^30 for the stack's int-to-size_t conversion, where only the sign matters.
- **atomic_ref:**
  - The 4-byte location starts at 100 and takes operands {100, 102} and deltas {1, 2}, so three calls never reach 0 or 2^32, which TLC's integers cannot hold.
  - The 1-byte location wraps modulo 256, and `aref_promotion` starts it at 255.
- **Sequence:** `Width` 8 and the seed 254 put the wrap within five reads.
- **Slice:** three calls on two slices are enough to build a slice of two distinct pointers (one `append` of a list), copy it into itself or into the other, and call once more on the result. Six nodes leave room for any such copy to finish, and for a self-copy that never returns to run out. A fourth call multiplies the states more than twentyfold and reaches no new kind of call.
- **Args:** the options are:
  - a counter `-v`, declared as `--vo` so that `add_option` strips dashes;
  - `-o`/`--o`, which takes a value;
  - a short-only flag `-f`;
  - a help-only heading with neither code nor id.

  The thirteen tokens reach every branch of `parse`, including a single-dash token that is a long id (`-vo`), a value inline (`-o=p`, `--o=`) and from the next entry, a cluster that takes a value (`-ov`), and a counter given a value (`--vo=p`). Three entries are enough to name an option twice and to run out of argv while one is waiting for its value.

Every property of a passing run has a mutant: a plausible bug in the code
that the property catches. Examples:

- a store instead of a CAS;
- a count on every retry;
- a missing key compare;
- an off-by-one bucket loop or capacity check;
- a missing count reset or rollback;
- a CAS failure that keeps `expected`;
- a counter that restarts at one;
- a `set_if_unset` that ignores the flag;
- an insert iterator left on the node it inserted.

## 7. Fairness

The threads are the caller's preemptive OS threads, and no call blocks. So
each thread's steps get weak fairness, `WF_vars(Step(t))`. The CAS gets
strong fairness, `SF_vars(InsertCas(t))`: `compare_exchange_weak` may fail
spuriously, but not forever while the head keeps equal to expected, which is
what the C++ standard's progress requirement on weak CAS grants. New calls
(`Call(t)`) are not fair: a caller may stop calling. `CallsReturn` says that
every invoked call returns.

The `AtomicRef`, `Sequence`, `Once`, `Args`, `Slice`, `RingBuffer` and `Help` runs check safety only and
assume no fairness. Apart from the slice copies, none of their calls loops, so there is no progress to
check: each call finishes in a bounded number of its own steps. A slice copied
into itself can loop; it is bounded by `bad_alloc` (hazard slice.hpp:170), and
single-threaded code offers no fairness to argue about.

## 8. Not modelled

- **The dictionary's move constructor and move assignment.** They are ill-formed: they move arrays of `std::atomic`.
- **`operator[]`.** It has no return statement, so using it is undefined behaviour.
- **`keys()`, `each()`, `empty()` and `size()`.** They are read-only.
- **The comparison operators of `atomic_ref`, and `is_lock_free`.** They are a `load()` followed by a comparison, or a constant.
- **Memory ordering weaker than sequential consistency.** The model interleaves atomic accesses sequentially consistently. The relaxed `count_` accesses only change when other threads see the counter, which the quiescent `CountMatches` does not depend on.
- **`args::argv0()`, `count()` and `list()`.** They only read.
- **The text `help()` prints.** `Help` keeps only the columns: the header lines before `"\nOptions:\n"` and the characters themselves are left out. No property covers the `str_size` throw for an id longer than 64 characters (args.hpp:352): the model reaches it, but nothing states the lengths `help()` must accept.
- **The lifetime of strings passed to the `std::string` overloads of `set` and `set_if_unset`.** `Args` represents a pointer by its text, so it cannot show the dangling `c_str()` (hazard args.hpp:152). For the same reason, a second `parse` (hazard args.hpp:302) is left out: a program calls it once.
- **Parts of `slice.hpp`.**
  - `clone(start, last)` calls a nonexistent `add`, `operator*` returns `std::list<T>&` from a list of `shared_ptr<T>`, and `swap` swaps a `const` list, so these members do not compile when instantiated.
  - `operator=(list)`, `assign(list)` and the list constructor take a list from outside any slice; `at`, `each`, `size`, `empty` and the iterator accessors only read.
  - No property is checked for `resize`'s null elements or for range checks that reject valid empty ranges (hazards slice.hpp:214, 200, 271): the model reaches both, but neither the spec, a comment nor a test states the ranges a call must accept or forbids empty elements.
- **The logger and the cipher, digest and file wrappers.** I/O with no protocol of their own.
