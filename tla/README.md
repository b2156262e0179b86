# A TLA+ model of AFLNet-Legion

AFLNet-Legion is a greybox fuzzer for network servers: AFL's coverage-guided
queue (`afl-fuzz.c`), AFLNet's sessions of messages and response-code state
sequences (`aflnet.c`, `afl-fuzz.c`), and Legion's Monte-Carlo tree search over
response sequences (`mcts.c`), which decides what to fuzz next under
`-E` with the MCTS state selection algorithm. This directory keeps formal
models of its logic, the TLC configurations that check them, and TLAPS proofs.

## 1. Inventory

| part | state it keeps | operations | what makes it correct |
|---|---|---|---|
| **MCTS tree** `mcts.c`, assertions in `logging.c` | tree of response nodes (white, black) and simulation nodes (golden), seeds with region indices, `khmn_nodes`, `ROUND` | `Initialisation`, `Selection`, `Expansion`, `Propagation` | the tree is the trie of observed response sequences; seeds replay to their node and leave something to mutate; selection ends; counters agree |
| **MCTS glue** `afl-fuzz.c` | `cur_tree_node`, `cur_seed`, `M2_start_region_ID`, `M2_region_count` | `update_MCTS_tree`, `find_M2_region`, the MCTS branches of `main` and `fuzz_one` | the locals that survive from one phase to another refer to what they referred to |
| **Regions** `afl-fuzz.c`, `mcts.c` | `regions[]` of a queue entry: byte range and state sequence | `update_region_annotations`, `remove_null_regions`, `truncate_long_regions`, `convert_kl_messages_to_regions` | regions stay in order, none is lost or left without states, the annotation belongs to the bytes |
| **Message list** `afl-fuzz.c`, `aflnet.c`, `klist.h` | `kl_messages`, `M2_prev`, `M2_next`, the node pool | `construct_kl_messages`, the splice in `common_fuzz_stuff`, restoring M2, `delete_kl_messages` | M1 and M3 survive every mutation of M2, no node is used after it was freed |
| **Queue and favourites** `afl-fuzz.c` | queue list, `top_rated[]`, `tc_ref`/`trace_mini`, `favored`, `pending_*`, `was_fuzzed_map` | `add_to_queue`, `update_bitmap_score`, `cull_queue`, start and `abandon_entry` of `fuzz_one` | reference counts match, the favoured set covers the bitmap, counters match the entries |
| **State-aware selection** `afl-fuzz.c` | `khms_states`, `state_ids`, IPSM graph, `khs_ipsm_paths`, `selected_state_index`, `state_cycles` | `update_state_aware_variables`, `choose_target_state`, `choose_seed`, `update_scores_and_select_next_state` | indices stay inside their tables, round robin reaches every state, the main loop finds a seed |
| **Network session** `afl-fuzz.c`, `aflnet.c` | socket, `response_buf`, `response_bytes`, `messages_sent`, `session_virgin_bits` | `send_over_network`, `net_send`, `net_recv` | `response_bytes[i]` is the prefix answered to messages up to i; a session ends in spite of a silent or dying server |
| **Target execution** `afl-fuzz.c`, `llvm_mode/afl-llvm-rt.o.c`, `afl-as.h` | fork-server pipes, `child_pid`, `child_timed_out`, `kill_signal`, trace bitmap | `init_forkserver`, `run_target`, `handle_timeout`, `__afl_start_forkserver` | pipes stay in step, the verdict fits what happened to the child in spite of signals |
| **Coverage bitmaps** `afl-fuzz.c` | `virgin_bits`, `virgin_tmout`, `virgin_crash` | `has_new_bits`, `classify_counts`, `simplify_trace`, `minimize_bits` | a virgin byte only loses bits; new coverage is reported once |
| **Calibration, dry run, saving** `afl-fuzz.c` | `cal_failed`, `exec_cksum`, `var_bytes`, unique crash/hang counters | `calibrate_case`, `perform_dry_run`, `save_if_interesting` | what is saved is new, limits hold, a flaky entry is flagged |
| **Mutation stages** `afl-fuzz.c` | stage counters, `out_buf`, `eff_map`, auto extras | `fuzz_one` (bitflips to havoc and splicing), `maybe_add_auto` | each deterministic stage restores its buffer |
| **Synchronisation** `afl-fuzz.c` | `.synced/*` with the next id to read | `sync_fuzzers`, `write_stats_file` | every id of every peer is read at most once |
| **Signals and shutdown** `afl-fuzz.c` | `stop_soon`, `skip_requested`, `clear_screen` | `handle_stop_sig`, `handle_skipreq`, ... | a request to stop ends every loop |
| **Output directory** `afl-fuzz.c` | `fuzzer_stats`, lock on the directory, `queue/`, resume directory | `maybe_delete_out_dir`, `pivot_inputs`, `nuke_resume_dir` | no session's results are lost on a restart |
| **Protocol extractors** `aflnet.c` | none | `extract_requests_*`, `extract_response_codes_*`, `save_*`, `convert_kl_messages_to_regions` | regions partition the buffer; codes start with 0 and grow with the buffer |
| **Replay** `aflnet-replay.c` | socket, response buffer | reads a saved session and sends it | same sequence of sends and receives as the fuzzer |
| **Test-case tools** `afl-tmin.c`, `afl-showmap.c`, `afl-analyze.c`, `afl-cmin` | the current input, the reference bitmap | minimisation loops, classification of bytes | every accepted reduction keeps the bitmap |
| **Build tools** `afl-gcc.c`, `afl-as.c`, `llvm_mode/*.cc`, `afl-clang-fast.c`, `qemu_mode` | none | rewrite command lines and assembly | out of a state-machine model's reach |
| **Libraries** `libdislocator`, `libtokencap` | `total_mem`, `call_depth`; the token list | `malloc`/`free`/`realloc` with guard pages; string comparison hooks | accounting of memory, no recursion |
| **Prototype** `MCTS/` | an earlier, stand-alone tree | - | superseded by `mcts.c`, not built |
| **Utilities** `afl-gotcpu.c`, `afl-whatsup`, `afl-plot`, `logging.c`, `test-instr.c` | none | reporting | nothing to check |

Interaction. The program is one thread. `main` alternates Selection, `fuzz_one`
and `sync_fuzzers`; each execution in these (`common_fuzz_stuff`) mutates M2,
runs the target, and, when the result is interesting, goes through
`save_if_interesting` and `add_to_queue` to `update_MCTS_tree`, which annotates
and normalises the regions, expands the tree and credits the node and seed that
the main loop selected. Concurrency comes from outside: the server under test and
its fork server, signals, and other fuzzers that write to the sync directory.

Hard behaviours: long sequences of legal executions that bring the tree or the
queue into a shape its own assertions exclude; globals (`cur_tree_node`,
`messages_sent`, `response_bytes`, `kl_messages`, `M2_next`) that outlive the phase
they were set for; signals racing the end of the child; a server that dies
between two messages; counters that go below zero. `PROJECT.json` lists them with
their lines under "hazards".

## 2. Modules

| module | models | role |
|---|---|---|
| `SearchTree` | the tree of `mcts.c` as a value and the functions that read and update it | operators |
| `MCTS` | dry run, main loop, Selection, `find_M2_region`, `fuzz_one`/`sync_fuzzers` as sources of executions, Expansion and Propagation | state machine |
| `PathTrie` | what the tree promises: the set of response sequences seen, and how many test cases brought a new one | abstract specification |
| `MCMCTS` | sets of queue entries | instances for TLC |
| `MCTSProofs` | facts about the operators of `SearchTree`; the five inductive invariants of `MCTS`, their consequences, the refinement of `PathTrie` | theorems |
| `Orders` | some places of a sequence in their order | operators |
| `LinkedList` | the list and the memory pool of `klist.h` as a value | operators |
| `MessageList` | `kl_messages` while a seed is fuzzed: construction, splice of M2, saving, deletion | state machine |
| `MessageSeq` | a sequence in three parts of which only the middle one changes | abstract specification |
| `Session` | `send_over_network` against a server process, and the annotation of regions from what was received | state machine |
| `Favourites` | `update_bitmap_score`, `cull_queue`, the pending counters, from the dry run to `abandon_entry` | state machine |
| `Scheduler` | state-aware fuzzing without MCTS: `update_state_aware_variables` and its tables, `choose_target_state`, `choose_seed`, the choice of M2, the main loop | state machine |
| `Words`, `Dictionary` | bytes, machine words and the interesting values; the automatic dictionary | operators |
| `Stages` | the deterministic stages of `fuzz_one` on the bytes of M2 | state machine |
| `Havoc` | `calculate_score`, havoc and splicing, on sizes | state machine |
| `FuzzOne` | `Stages` followed by `Havoc` | composition |
| `Parsing` | the loop the extractors of `aflnet.c` share | operators |
| `RequestRegions`, `ResponseCodes` | `extract_requests_*`, `extract_response_codes_*` | actions |
| `Extractors` | both, called on seed files and on growing responses, with the framing of each protocol as the reference | composition |
| `Coverage` | bitmaps: `classify_counts`, `simplify_trace`, `has_new_bits` | operators |
| `Calibration` | `calibrate_case`, `perform_dry_run`, `save_if_interesting` | state machine |
| `ForkServer` | the fork server of `afl-as.h` and of `afl-llvm-rt.o.c`, its children and the two pipes | state machine |
| `Execution` | `init_forkserver`, `run_target`, the alarm and the stop signal, with `ForkServer` | composition |
| `OutputDir` | the output directory from the start of the program to the end of the dry run | state machine |
| `Campaign` | `OutputDir` with the fuzzing sessions in between and another instance | composition |
| `MCMessageList`, `MCSession`, `MCFavourites`, `MCScheduler`, `MCFuzzOne`, `MCExtractors`, `MCCalibration`, `MCExecution`, `MCCampaign` | input directories, codes, factors, buffers, messages, outcomes of runs, options | instances for TLC |
| `SchedulerProofs` | the inductive invariant of `Scheduler` and its consequences | theorems |
| `FavouritesProofs` | the inductive invariant of `Favourites` and its consequences | theorems |
| `ExecutionProofs` | the inductive invariants of `Execution` with `ForkServer` and of `FuzzOne`, and their consequences | theorems |
| `SessionProofs` | the inductive invariants of `Session` and of `MessageList` and their consequences, the refinement of `MessageSeq` | theorems |
| `CalibrationProofs` | the inductive invariant of `Calibration` and its consequences | theorems |
| `Sums` | what a sum over a finite set is: `MapThenSumSet` of the community modules | lemmas |
| `CampaignProofs` | the inductive invariant of `Campaign` with `OutputDir` and its consequences | theorems |

How they fit: `Session` ends with an annotated entry and checks that it is
`WellFormed` in the sense of `SearchTree`, which is the assumption `MCTS` makes of its
entries. `MessageList` saves entries and loads them again, and `Favourites` orders them;
both take what a run of the target does as an input. `Scheduler` keeps the tables that
`Favourites` sees as `Reaches`, and takes from `Session` that region sequences grow and end with the
whole response. `Extractors` shows that response sequences grow with the responses, which
`Session` and `Scheduler` assume (it does not hold of SSH responses with a header cut off, section 5); `RequestRegions` gives the regions that `MessageList` starts from.
`Execution` is the run around a session of `Session`; `Calibration` takes its verdict, and
`Stages` its checksum, as an input. `Campaign` keeps on disk what `Calibration` files.

### SearchTree and MCTS

A tree is a sequence of node records in the order of their creation, a pointer is
an index and `NoNode` is NULL, so "first child with this id" is the child with the
least index. A queue entry is what `preprocess_queue_entry` leaves of it: the codes
of its last region and the number of codes (`state_count`) of every region;
`WellFormed` states what the annotation guarantees (the state sequence of each region
is extracted from a prefix of one response buffer, so they are prefixes of each
other, and regions without a sequence are removed).

Actions and code:

| action | code |
|---|---|
| `DryRunEntry(e)`, `FuzzEntry(e)` | `update_MCTS_tree` called from `perform_dry_run` or `save_if_interesting`; first round of Expansion and the seed of the root |
| `Dye` | one iteration of Expansion's second round: reopening the parent, matching a region, creating or flipping the node, adding the seed, the assertions |
| `FinishExpansion` | the end of Expansion (leaf mark, credits on the path) and Propagation |
| `StartFuzzing`, `BeginSelection` | `main` up to `select_tree_node` |
| `Descend`, `Climb` | one iteration of the outer and of the inner loop of `select_tree_node` |
| `SelectSeed` | rest of Selection, `best_seed`, `khmn_nodes` |
| `FindM2` | `find_M2_region` |
| `EndFuzz`, `Stop` | end of `fuzz_one`, `stop_soon` |

`log_assert` is `Check`: without `-a` a failed condition aborts, with `-a` execution
goes on and the name of the assertion stays in `failed`.

Abstractions. The UCT value is not computed: a score is -INFINITY, INFINITY (never
selected) or finite, and of two finite scores only what holds for every RHO >= 0 is
used (`Dominated`). `best_child` and `best_seed` break ties with a generator that is
seeded anew for each call; the model takes any of the ties. Conditions on messages and
bytes are left to `Session` and `MessageList`.

### LinkedList, MessageList and MessageSeq

A list is a record: the arrays `next` and `data` of its cells, the pool of freed cells,
head, tail and size. `Alloc` reuses the cell that was freed last, so a pointer kept too long is
seen as one. `MessageList` follows one seed at a time through `fuzz_one`:

| action | code |
|---|---|
| `FuzzOne` | `construct_kl_messages`, the loop that finds `M2_prev` and `M2_next` |
| `BeginSplice`, `PushMessage`, `Relink`, `FreeOld` | `common_fuzz_stuff` before it runs the target: regions of the buffer, the loop of `kl_pushp`, the relinking, the loop that frees the old M2 |
| `RunAndSave` | `run_target` and `save_if_interesting`, reduced to: the sent messages become an entry, or not; regions without an answer may be removed from it |
| `Abandon`, `DeleteMessage`, `Destroy` | the end of `fuzz_one`, `delete_kl_messages` |

Bytes are tokens: a mutated buffer is given by its regions, and `extract_requests` cuts
it into consecutive ones. A `post_handler` that rejects the buffer returns before the list is
touched, which is a stuttering step. That `fuzz_one` gives up happens between two mutations.
A region of a saved entry has a size, and together they claim no more bytes than its file has
(`RegionsFit`, an assumption on the queue at the start; `extract_requests` cuts the file into its regions). Regions
without an answer are taken out with `At` of `Orders`, which `Session` uses for the same loop.
`MessageSeq` knows nothing of cells: M1, M2 and M3 are sequences of messages, `Mutate`
replaces M2, `Save` appends a prefix of the whole to the corpus, and `Load` takes an
element of the corpus apart. That `MessageList` implements it says that M1 and M3 survive every
mutation and that what is loaded again begins with the bytes that were sent, though not always
in the same messages (section 5).

### Session

The fuzzer's steps are the phases of `send_over_network`: `Connect`, `Early`, `Send`,
`Recv`, `AllSent`, `HandleResponses`, `Drain`, then those of `update_MCTS_tree`: `Annotate`
(`update_region_annotations`), `remove_null_regions`, one region of its loops at a time, and `Preprocess`
(`truncate_long_regions` and the read of the last region). The server takes messages, sends units (a whole answer with a code,
a part of one, or bytes without a code at which `extract_response_codes` stops), covers
new code and crashes, each at any time. `net_recv` takes all that has arrived when it succeeds;
when it fails (a signal, a reset) it may have taken a part. Each unit remembers in which session it
was sent and after how many messages, for the properties only. Sessions are numbered modulo
`MaxSessions`, which only limits how many the stale units can be told apart by.

### Favourites

`queue` and `top_rated` are those of the code, with entries numbered in queue order; the
loops over the bitmap go byte by byte, so what one byte does to the entry that the next byte
meets is in the model. Inputs are the trace and the `exec_us * len` of a calibration, the states a
response sequence visits and those that are known (`Reaches`), whether calibration fails, the
target state and the chosen seed. `contenders` remembers, for the property only, which entries were scored for a byte.

| action | code |
|---|---|
| `DryRunCalibrate`, `DryRunAnnotate` | `perform_dry_run`: `calibrate_case`, then `update_state_aware_variables` |
| `ScoreByte`, `ScoreEnd` | one byte, and the end, of `update_bitmap_score` |
| `CullStart`, `CullByte`, `CullEnd` | the head of `cull_queue`, one byte, `mark_as_redundant` |
| `Select` | `choose_seed`, and the early returns of `fuzz_one` |
| `Save` | `save_if_interesting` up to the score |
| `Abandon` | `abandon_entry` |

The state selection algorithm without MCTS is modelled; with MCTS the target state is always 0
and the steps are a subset of these.

### Scheduler

`state_ids`, `khms_states`, `was_fuzzed_map`, `selected_state_index`, `state_cycles` and
`target_state_id` are the globals of those names; `ipsm` is the set of edges of the graph, whose nodes
are the ends of edges; `khs_ipsm_paths` holds the shortened sequences in place of their hashes. A seed of
a state is a queue index. A response is one record per execution: the codes of the whole
response, and for each region the length of the prefix extracted up to it.

| action | code |
|---|---|
| `DryRun`, `Save` | an execution of `perform_dry_run`, or one that `save_if_interesting` keeps in `fuzz_one` or `sync_fuzzers`: the entry, its column of `was_fuzzed_map`, `is_state_sequence_interesting` |
| `Learn` | one iteration over the transitions: nodes, states, row, edge |
| `Annotate` | `update_region_annotations` and the seed of state 0, or the PFATAL without it |
| `Reach` | one region: its state gets the entry as a seed, and is added if unknown |
| `Credit` | `paths` and `paths_discovered`, and the return to the caller |
| `ChooseState`, `NoStates` | `choose_target_state`, and `state_ids` empty |
| `ChooseSeed` | `choose_seed`, and the condition of the loop around both |
| `FuzzOne` | the choice of M2 in `fuzz_one` with its early return |
| `Abandon`, `Continue` | `abandon_entry`; the head of the main loop |

The score of a state is a real number made of counters that nothing else reads, so after the
warm-up FAVOR takes any state, and a seed list of more than `FewSeeds` gives any of its seeds.
That calibration of an entry failed, which keeps `was_fuzzed` unset, is any outcome of `Abandon`.
Two sequences with the same hash are not modelled. The other early returns of `fuzz_one`
(a seed that cannot be calibrated, chance) are left to the model of calibration.

### Words, Dictionary, Stages, Havoc and FuzzOne

`Stages` works on buffers of real bytes. One step is one turn of the outer loop of a stage with
all executions of its inner loop: flip1 collects tokens, flip8 builds the effector map, the
arithmetic and interesting-value stages leave out what `could_be_bitflip`, `could_be_arith` and
`could_be_interest` say was tried, the token stages overwrite and insert. The tables of interesting values are
those of the code: the wider ones begin with the values of the narrower ones, sign-extended (`Widened`). What the target makes of a
buffer is one of `Cksums` or the seed's own. `tried` remembers the buffers that were executed.
`Havoc` forgets bytes and keeps sizes: how much is allocated, how much used, and the loop
counters; each of the 17 tweaks is a step, with the choices of its random numbers. `inBounds`
becomes FALSE when an access leaves a buffer or `UR(0)` is called.

| action | code |
|---|---|
| `WalkingBits`, `WalkingBytes` | flip1 to flip4 with `CollectToken`; flip8 with the effector map |
| `WalkingWords`, `Arithmetics`, `InterestingValues` | flip16, flip32; arith 8, 16, 32; interest 8, 16, 32 |
| `UserExtrasOver`, `UserExtrasInsert`, `AutoExtrasOver` | the token stages |
| `EnterStage`, `TweakWord` to `DuplicateRegion`, `Execute` | one havoc stage, its stacked tweaks, one execution with the restore |
| `NoSplicing`, `RetrySplicing`, `Splice` | the end of havoc, the retries and the new input |

### Parsing, RequestRegions, ResponseCodes and Extractors

One step is one turn of an extractor's loop. `mem` is the part of the buffer from `cur_start`,
and `stale` what stood in its first twelve bytes before, since the C code reuses the array. A buffer is put together from pieces, one
at a time: after each call another piece is appended and the extractor called anew, as
`update_region_annotations` calls it on longer and longer parts of one response buffer. `IsRequest` and `ReplyCode`
say, independently of the loops, what a message of a protocol is and which code it has.

The extractors for SSH and DTLS read beyond the buffer they are given. `memory` is the whole allocation, of which
`given` pieces are the buffer; after it come the byte 240 with which `ck_alloc` ends an allocation and `behind`, which is any of `Behind`.
SSH subtracts unsigned numbers (`Above`, `NextMessage`), so that a message whose header is cut off gives a code read from behind the buffer, and
looks for the end of an identification without a limit: the search ends at a newline behind the buffer or with a `Crash`. `sure`
counts the codes that came from the buffer alone; only these can be compared with a later call (`CodesGrow`).

### Coverage and Calibration

A byte of a map is a set of bits. A run is one of `Outcomes`: hits, verdict, messages sent,
signal. `Cycle` is one calibration run, `Measured` and `Marks` the end of `calibrate_case`; `DryRun`
and `DryVerdict` are `perform_dry_run`, `Execute` is `common_fuzz_stuff` up to the verdict of
`save_if_interesting`, whose branches are `DiscoveryCalibrated`, `Hang`, `Verify` (the second run of a hang with
the longer timeout), `Crash` and `OtherFault`. `seen` remembers the traces of the runs of each entry.

### ForkServer and Execution

Processes are numbered, and are running, stopped, zombies or gone. Between any two system calls
of `run_target` the server, its child, the alarm (`handle_timeout`), the stop signal and init can act.

| action | code |
|---|---|
| `InitForkserver`, `ReadHello`, `ServerIsUp` | `init_forkserver` |
| `BeginRun`, `ForkTarget`, `Request`, `ReadPid`, `Arm` | `run_target` up to `send_over_network` |
| `SendOverNetwork`, `TerminateChild`, `WaitUntilGone` | `send_over_network`: its three ways out, SIGTERM, the wait for the process to be gone |
| `ReadStatus`, `ClearPid`, `Disarm`, `GiveVerdict` | the rest of `run_target` |
| `Hello`, `ReadRequest`, `WriteOff`, `Fork`, `Continue`, `WritePid`, `WaitForChild`, `WriteStatus` | the loop of either fork server |
| `ChildStops`, `ChildEnds` | the target |

### OutputDir and Campaign

`disk` is the directory: `queue` and `_resume` with files (number, origin, contents), `.state` and its marks,
the crash directories, `.synced`. `mem` is what a session holds. A session starts
fresh or resumes in place; `Crash` may come between any two steps and leaves `disk` alone. The other instance
creates files and writes them later.

| action | code |
|---|---|
| `Start`, `RenameQueue`, `CleanOutDir`, `CleanOutDirFails` | `main` and `maybe_delete_out_dir`: the queue is renamed to `_resume`, unless that directory holds something, be it only `.state` (`Blocked`); what is left is deleted; the directory of the crashes is renamed, or cannot be |
| `setup_dirs_fds`, `read_testcases`, `PivotInput`, `PivotDone`, `NukeFile`, `NukeDone`, `DryRun` | the functions of these names, one file at a time |
| `CreateEntry`, `add_to_queue`, `FoundEntry`, `FoundCrash` | `save_if_interesting`: the file is created, then written and queued |
| `mark_as_det_done`, `mark_as_redundant`, `mark_as_variable` | the functions of these names |
| `SyncBegin`, `SyncCase`, `SyncEnd` | `sync_fuzzers`, one file of the other instance at a time |
| `Stop`, `Crash` | the end of `main`; a kill, or a failed call |

The deletions inside `maybe_delete_out_dir` are one step: all of them come after the rename, and none touches `_resume`.
`hist.risk` remembers the two ways in which the code can lose an old queue (section 5).

### Slip operators

An operator named `SlipX`, next to a definition `X`, is `X` with a plausible mistake
in it (a dropped update, an off-by-one, a swapped order). No definition uses it. The
mutants of `PROJECT.json` put it in the place of `X` to see that a property notices.

## 3. Runs

| run | configuration | shows |
|---|---|---|
| `burst` | bursts of codes, assertions on, 3 executions, 3 rounds | types; `TreeSound`: trie shape, seeds replay to their node, the counters of UCT agree; `AssertionsHold`: no assertion but the two known ones fails, and none while every response has completed one code; `SteersHonestly`: only exhausted black nodes are given up, and credits balance; Selection terminates; refinement of `PathTrie` |
| `wild` | `-a`, `-z`, silent regions, code 999, empty responses, 3 executions, 2 rounds | what has to hold even after failed assertions: usable seeds, non-empty M2, well-defined steps of Selection |
| `splice` | two seeds of one and two regions, up to 4 regions per buffer, 3 mutations, 3 entries | refinement of `MessageSeq`; no cell is leaked, freed twice or used after it was freed; the buffer is sent to the last byte |
| `answers` | 3 messages, 2 units, 1 bit of coverage, two sessions | the annotation reads one session only, sizes grow, no region is credited with an answer to a later message, the entry is well formed, every session ends |
| `win` | 2 bytes, 2 states, 2 factors, 2 seeds, 3 entries | reference counts, traces, cover, and that the winner of a byte goes through the most states of all that were scored for it |
| `learning` | 3 states, 5 responses, 2 seeds, 3 entries, round robin or FAVOR for both choices | `LearnsAll`: the graph is the union of what was seen, the tables of states, seeds and marks agree while they grow; `RoundsAreSound`: M2 follows the target, and the program ends itself only when no response brought more than one code; fuzzing goes on; with turns, a new seed is tried |
| `fuzz_one` | six buffers of one to seven bytes, two user tokens, two checksums, stacks of two tweaks | buffers are restored and never left; the tokens are the runs of bytes the comment describes; `passed_det` means that everything promised was executed; havoc and splicing return |
| `extractors` | eight protocols, up to three pieces, whole, short, cut off and misshapen | regions tile the file and are the requests of a well-formed one; codes are those of the replies and only grow; every call returns or dies in the search for a newline, unless it meets a DTLS record without content or an SSH length that wraps |
| `calibration` | one seed, one discovered entry, two runs, a map of two bytes, with and without `-C` | the virgin maps are exactly what was seen; files are of the run they name; marks and totals agree; calibration ends |
| `execution` | three runs with either fork server, with and without `-K` and `-F`, persistent or not, and without a server | pipes stay in step; the map has one writer and the verdict is that of the process; every run ends, unless it waits for a process that nobody collects |
| `campaign` | one seed, two finds, one crash, two cases of the other instance, four sessions, three events | the queue on disk is the queue in memory; findings survive kills; marks tell the truth; the scan of the other instance leaves no case out because of a kill |
| `import` | as `campaign` | what is imported is not what the other instance found (section 5) |

Bounds of `MCTS`. `MaxExecs` bounds the test cases added to the queue, `MaxRounds` the rounds of
the main loop, `MaxSelected` saturates the selected counters of nodes; without
saturation the endless selection of a dead end under `-a` has infinitely many states. The
entry sets have codes 0 to 4 and up to four regions: enough for a black node, a flip,
two children of a black node, a flip of the middle of a path, a leaf that stops being
one, an entry with more regions than codes, and a seed that ends at its node. Three
executions in any interleaving with three rounds reach all of these; three of the entries are
in lockstep, so the premise of `NoFailure` is met by up to three executions.

Bounds of the others. Four regions in a buffer with seeds of at most two exceed
`max_seed_region_count`, so messages are joined; three mutations let a splice find a list that
two splices have changed, with cells from the pool in all three parts. `MaxQueue` 3 allows one
saved entry to be loaded again. In `Session` three messages have a first, a middle and a
last one, two units put an answer, or the two parts of one, before, at and after each poll, and two sessions are enough
for anything stale. `TruncateAt` is 3 where the code has 200, so truncation happens. In
`Favourites` two bytes are won by one or by two entries in each order; two seeds take bytes from
each other in the dry run and a third entry takes them later; `Wrap` 16 stands for 2^32 and is
more than the entries. The favourites theorems hold for all of these. In `Scheduler` two
seeds and a third entry meet in every order all five responses, among them a loop that is shortened to a
known sequence, a state that no region ends in and one first seen by the third entry;
`WarmUp` 1 stands for 5 cycles and `FewSeeds` 2 for 10 seeds, so that both sides of each are
reached (the initial state has a list of three).

In `FuzzOne` the buffers have a value that flips bits across bytes when a number is added, a
single byte, runs of letters for tokens, words next to interesting ones, and enough bytes for four blocks of the
effector map (`EFF_MAP_SCALE2` 1 for 3 and `EFF_MIN_LEN` 5 for 128 make blocks on short buffers);
`ARITH_MAX` is the code's 35, and `EFF_MAX_PERC` is 70 for 90, so that three of four blocks exceed it. Two tweaks on one stack let the second
find a buffer that the first has shortened, extended or replaced; one length in `TargetLens` exceeds `MAX_FILE`, since splicing
takes over the length of an entry without a limit and only the tweaks have one; `HAVOC_MAX_MULT` 1 lets the cycles double
once. In `Extractors` three pieces put a whole, a broken or a cut-off message before, between and after others; `MaxCodes`
12 ends a loop that would go on for ever and is more than any buffer has codes. In `Calibration` the
cycles are 2 and 3 for 8 and 40: the long calibration is entered at the first difference and a second one meets it running;
limits of one kept crash and one kept hang are reached by two runs. In `Execution` the first run sets the server up, the second meets
whatever the first left behind, and the third what a stopped or written-off process left. In
`Campaign` three sessions are needed for a resume of an interrupted resume, and four for a `_resume` that one campaign leaves
behind (killed after the rename or failing without test cases), a fresh campaign with finds and a resume of that. One seed and two finds
are enough entries to be partly linked, partly deleted and renumbered.
The SSH pieces of `Extractors` are cut inside a header, before an end of line and inside "SSH", one has a length near 2^32, and `Behind` gives a cut-off header
a code from behind the buffer.

Fairness. The `Spec` of `MCTS` has weak fairness on `Computing`, the steps of Expansion, Selection and
`find_M2_region`. They are straight-line code and loops of one thread without a blocking
call. Nothing is assumed about executions, the main loop or stopping.
`SelectionTerminates` holds because a node is climbed only when it is given up or its
parent is asked, and without `-a` the dead end aborts. The `Spec` of `Session` has weak fairness
on `Fuzzer`, the steps of `send_over_network`: every wait in it has a timeout (`poll`, the socket
options, 1000 attempts to connect), and its last loop needs that a bitmap of finite size cannot
gain bits for ever. The server is not assumed to do anything.
The `Spec` of `Scheduler` has weak fairness on `Step`: learning and choosing are loops of one thread,
and each `fuzz_one` makes a finite number of executions, so it reaches `abandon_entry`. `Save` is
not in `Step`: nothing has to be found. Its liveness properties are stated for round robin; RANDOM
and FAVOR reach a state only with probability 1, which weak fairness does not express. The runs of `FuzzOne`, `Extractors` and
`Calibration` have weak fairness on the steps of havoc, of an extractor and of a calibration, all code of one thread
whose executions end. `Execution` has weak fairness on the fuzzer's steps, the server's steps, init, and the alarm once it is
armed (`setitimer`); the target is never assumed to end, and the stop signal never to come. The other
modules state safety only.

## 4. Proofs

`MCTSProofs` proves for every set of well-formed entries, for all values of the options
and for all bounds:

- `TypeCorrect`: `Spec => []TypeOK`
- `SeedsAlwaysUsable`: `Spec => []SeedsUsable`
- `M2NeverEmpty`: `Spec => []M2NotEmpty`
- `SelectionGoesOn`: `Spec => []SelectionSteps`

and, for entries that are `Plain`,

- `TrieAlways`: `Spec => [](TrieShape /\ SeedsReplay)`
- `TreeAlwaysSound`: `Spec => []TreeSound`, which adds `CountersAgree`, for `MaxRounds <= MaxSelected`: the bound
  at which the model's `selected` counters stop is not met (a 32-bit counter in the code)
- `SteeringIsHonest`: `Spec => SteersHonestly`, the two action properties on credits and on giving up
- `ExpansionImplementsTrie`: `Spec => ImplementsTrie`, the refinement of `PathTrie`
- `AssertionsAlwaysHold`: `Spec => []AssertionsHold`

Assumptions: `EntriesAssumption` (entries are well formed), `OptionsAssumption`,
`MaxSelectedAssumption`. The inductive invariant `Inv` adds to `TypeOK`: the tree is
`Sound` (the root is white, has no parent and has node 2 as simulation child; all other
parents are nodes; outside node 2 every seed has a region after its own), the root is
not given up, an upward step never starts at the root, the selected seed is one of the
selected node, the matching region of Expansion lies inside the entry, and an M2 chosen
in this round is not empty. `SeedsUsable` alone is not inductive: that a seed fits
depends on the matching region staying inside the entry and on the region counts being
monotone, and `M2NotEmpty` needs the selected seed to be one of the selected node, also
across the executions in between.

`Plain` says of an entry that it has no more regions than response codes, and that no code is 999, the id
of a simulation node. The first is what the comment at `mcts.c:1069` takes for granted of the regions that
the loop below it reads. Without it the match of an earlier code is reused (`mcts.c:1065`) and seeds end up
at nodes they do not replay to; with a code 999 `exists_child` takes a simulation node for the child of a response. Both are
listed in section 5, and `wild` has entries of both kinds. The entries of `burst` are all plain; regions
that complete several codes, which make black nodes, flips and dead ends, are plain too.

Each of the five invariants rests on the ones before it; `CountInv` needs `Inv` and `TrieInv` only.

- `Inv`, described above.
- `TrieInv` says that the tree is a trie (`IsTrie`: a node's path is its parent's and its own code, no two nodes have
  the same path, a white node and its simulation node belong together) and that every seed below the root replays to its node.
  Expansion adds nodes one at a time, so it also says what the locals mean between two iterations
  (`FrameTrie`): `parent_tree_node` is the node of the codes walked, an exact match means that the region ends there,
  the nodes above `base` are prefixes of this response, and `newPath` (`new_path`) is whether the response was
  missing from the nodes up to `base`. The refinement mapping reads only nodes up to `base`; so every iteration but
  the last is a stutter of `PathTrie`, and the last adds the prefixes of the response in one step.
- `SelInv` says that a response node without children is given up, that going up from the place of
  Selection meets no simulation node, and that a node on which Selection stands has a child that is not given up.
  It holds for entries that are not plain as well.
- `LockInv` says what the tree looks like while every response has completed one code: all response nodes are white, each
  has a seed unless it is a leaf (and then given up) or was reached only in this iteration, and
  Expansion matches every region exactly. Before the first entry the tree is the root alone. No assertion can fail in such a
  tree, and no dead end is reached.
- `CountInv` says what the counters mean inside a round. From the selection of the root until `SelectSeed` the seeds have
  been selected once less often than there are rounds (`OwedIn`), and from the selection of a simulation node until
  that of its seed the node once more often than its seeds (`ExtraIn`); this part is about runs without a failed assertion, since
  after one the loop may select a node twice. Always: a simulation node's discoveries are the sum of its seeds', a response node
  has no more discoveries than its parent, `khmn` knows the code of every node and counts the selections below its
  parents, and the seed selected for the round is still one of its node when discoveries are credited. The sums are
  over sets that Expansion makes larger; `SumExtend` of `Sums` (new nodes add nothing) and `SumChange` (one summand grows) carry them
  over every step. Most steps keep what is counted (`Carries`), and `CarriedStep` treats them together.
  That all ancestors of a node, the root among them, are credited once is `LineageClosed` and `RootInLineage`.

The lemmas about the tree operators come first: that each keeps the tree sound, no smaller, a trie, and
what it changes of the nodes. Then there is a lemma per action for each invariant; steps that leave
the tree alone are treated together (`QuietTrie`, `StutterSel`, `StutterLock`).

`SchedulerProofs` proves for every set of states and of responses, any number of seeds and cases and every choice of
algorithms:

- `LearnsAlways`: `Spec => []LearnsAll`
- `RoundsAlwaysSound`: `Spec => []RoundsAreSound`

`LearnsAll` compares the graph, the tables and the counters with the responses of the whole queue, but
`update_state_aware_variables` brings one entry in at a time, one transition and one region per step. `IInv` says how far it
has come: an entry that is learned from has drawn its transitions up to `i` (`Drawn`), one that is annotated is a seed of the
states that its regions before `i` end in (`ReachedSoFar`), and one that has not arrived yet has no codes and is nobody's seed
(`EntriesWell`, `MarksInv`). That skipping a sequence known up to the length of its loops loses nothing is
`PathsDrawn` with `TrimmedKeeps`: shortening keeps the set of transitions, for a sequence of any length. It follows that
annotation meets only known states (`CodesKnown`), so the branch that inserts one is never taken. `TabWell` is about the tables as a value,
and `InsertEndsGrows` proves that inserting the ends of a transition keeps it. For a round, `RoundInv` keeps M2 where
`FuzzOne` found it while cases are saved and learned from, and that the chosen entry stays a seed of the target, which
`Abandon` needs to mark a reachable cell. The assumption on responses is `WellFormed`, which `Session` shows of entries.

`FavouritesProofs` proves for every size of the bitmap and of the queue, every set of states
and factors:

- `FavouritesTypes`: `Spec => []TypeOK`
- `ReferencesCounted`: `Spec => []RefCounts`
- `WinnersTraced`: `Spec => []WonBytesTraced`
- `FavouritesCover`: `Spec => []FavouredCover`
- `WinnersHaveMostStates`: `Spec => []MostStatesWin`

from the four assumptions on the constants. None of these is inductive alone. `RefCounts`
needs that the entry being scored has not yet won a byte that is still to come (else
`update_bitmap_score` would release and win the same entry at once), and that the trace it keeps, if
any, is the one being scored: `ScoringInv`. `FavouredCover` needs what the loop of
`cull_queue` has done so far, that a byte is covered once it was passed or left `temp_v`
(`CullingInv`), and `WonBytesTraced` for the step that makes a winner cover its own byte. The
steps are split by what they leave alone: a lemma per action says which fields it keeps
(`EntriesKept`, `ReferencesKept`), and only `ScoreByte` needs cardinalities. `MostStatesWin` compares entries scored at different
times, so it needs that the number of states of an entry changes only in the dry run (`RanksStep`), and there what `DryRunInv`
says: a seed whose states are not counted yet has none and was scored only if it is the current one, and where the current one lost, the winner has some.

`ExecutionProofs` proves for any number of runs, both fork servers and all options:

- `ExecutionInStep`: `ExecutionSpec => []InStep`
- `ExecutionResults`: `ExecutionSpec => []ResultsAreOwn`

The two properties speak of the moments at which a pipe is read. What makes them true is the agreement
of four places in between, and `IInv` states it: for every place of the fuzzer the place of the server, the
contents of both pipes, and the state of the newest process. Each is a short table (a request is in `ctl`
only while the server has not read it; the second message of an answer is about the same process as the
first; no process but the newest is alive unless the server wrote it off or a stop came before its number was
read). The quantities in the table are defined at the head of the module, and a step first says what an action
does to them, so that no other step looks into a sequence or a record.

The same module proves of `FuzzOne`, for any inputs, user tokens, checksums and tables and all values of the bounds:

- `BuffersStayInOrder`: `FuzzOneSpec => []BuffersInOrder`

Assumptions: `StagesAssumption`, `DictionaryAssumption` (the user's tokens are sorted by length, as `load_extras` leaves them),
`HavocAssumption` (the block sizes grow, regions of other entries are not empty). `StagesInv` adds to the property what the turn of a stage
finds: it fits in the buffer (`turn < TurnsOf(stage, len)`, because a stage for which the buffer is too short is left out: `NextStageIs`),
`ex_tmp` is as long as ext_UI has walked, and the part of the automatic dictionary that is used is sorted by length (`ShortestFirst`). Then
each stage restores in its own way. The bit flips are undone in the order in which they were made, not in the reverse one, so a flip
has to be its own inverse and indifferent to the others (`FlipTwice`, `FlipSwaps`, `FourUndone`). Words are put back from a copy
(`PutBack`). The token stages restore as many bytes as the last token written has, however many were written before:
`OverwrittenIs` shows by a smallest counterexample that the buffer differs within these only, because a later token is no shorter, for which
`SortedExtras` shows that sorting by use and then a part by length leaves that part sorted. In `Havoc` the invariant `HInv` says which of the four
lengths are equal where (`hlen = in_alloc` outside a tweak, `temp_len = hlen` before the first tweak of a stack), and
the tweaks are arithmetic from there.

`SessionProofs` proves for any number of messages, answers and sessions, any set of codes and any `TruncateAt`:

- `SessionIsOne`: `Spec => []OneSession`
- `SessionCredits`: `Spec => []AnswersCredited`

The properties read the buffers when the session is over; `IInv` says what they look like before: units on the
wire are of this session and of messages read by now (`OnWire`), the server cannot have read more than was sent, there
is a size for each message sent (`Counted`), and the sizes grow except for the one still awaited (`Grown`). `Causality` is
inductive only with these, and with the units received so far staying where they are (`ReceivedUnits`). For the
entry, `Removing` is the invariant of the loops that move regions to the front in place: those in front are the
first ones with an answer, in their order (`Nth`), the others are as they were annotated. That each is a prefix of the
last follows from `CodesGrow`: a longer prefix of the responses has at least as many codes. `extract_response_codes` is
written without recursion for this, as the codes at the numbers of the units that have one.

The same module proves of `MessageList`, for any initial queue, any buffers and any numbers of regions, mutations and entries:

- `ListAlwaysHolds`: `ListSpec => []ListHolds`
- `BufferAlwaysSent`: `ListSpec => []BufferIsSent`
- `ListImplementsMessageSeq`: `ListSpec => ImplementsMessageSeq`

Assumptions: `InitialQueueAssumption` (the entries at the start have regions, which fit their file) and `ListBoundsAssumption`.
The invariant `ListInv` is a type (`Fixed`) and one predicate for each place of the program (`AtStage`), in terms of the chain `c` of
cells from head to tail, which the properties only reach by walking `next`. `Layout`: the cells of the chain, those still to be freed and
those in the pool are together every cell once, and `size` counts the first two. `Divided`: `M2_prev` and `M2_next` are at positions of the chain, and
M2 between them is not empty. `Queued`: in the middle of a splice the messages pushed so far stand behind the `k`
cells of the old list, and `last` is the last of those. When M3 is empty, `M2_next` is the tail, the tail moves with every push, and
`kl_pushp` fills the very cell that `M2_next` names; `FollowTail` is how the code comes through that, and
`j = k` in `Divided` is what it keeps. `Filled`: M2 has the messages of the buffer, from the relinking on. The relinking
is a map between the places of two chains (`From`): `RelinkIs` shows that the new chain is M1, the pushed messages, M3, the tail, that the old M2 is
cut out of it, and that it ends where `FreeOld` stops. For the
refinement, the three parts are read off the chain (`Between` is a stretch of it), a step of the splice is a stutter
except `Relink`, and `Save` needs that the messages which will be loaded of the new entry, also without some of its regions, are a prefix of what was sent: the sizes that are left
add up to at most as much (`PickedIsLess`), and `construct_kl_messages` reads the file from its start.

`CalibrationProofs` proves for every map size, number of seeds and of runs, with and without `-C`:

- `CalibrationRecords`: `Spec => []RecordsAreTrue`
- `CalibrationMarks`: `Spec => []MarksAreTrue`

`RecordsAreTrue` compares each virgin map with everything seen so far; `IInv` says it bit by bit (a bit is missing
exactly when a trace of an entry, or of a crash, showed it) and adds what holds in the middle of a calibration: the
checksum of an entry is of a trace it showed, an entry without one has none to be compared with, so `first_trace` is its
own (`Fresh`), and `var_detected` is set only after two runs differed.

For the totals, `TotalsInv` says that an entry that is not yet measured counts for nothing, and that the one being
calibrated is such an entry (`Unmeasured`): `calibrate_case` raises `cal_failed` before the runs and clears it only
with the sums, so nothing is added twice, also when the calibration of a seed is given up and `at` moves on. This is what needs
`CAL_CHANCES` not to be zero. A step then changes at most one entry, and by as much the totals (`Shifted`). `Seeds <= MaxEntries` and the order of the two
numbers of cycles are the other assumptions; the code has 3, 8 and 40.

`Sums` proves what the sum over a finite set is (`SumTake`, `SumAdd`, `SumChange`) although it is computed by a recursive function in
an order that the definition leaves open. An induction theorem with a predicate as its parameter cannot be used; instead
each lemma takes a smallest set that it fails for (`SmallestOf`, from the well-foundedness of `<`).

`CampaignProofs` proves for any number of sessions, kills, files, entries and cases of the other instance:

- `CampaignQueueKept`: `CampaignSpec => []QueueKept`
- `CampaignFindingsSurvive`: `CampaignSpec => []FindingsSurvive`
- `CampaignSyncLooksAtAll`: `CampaignSpec => []SyncLooksAtAll`

The first says nothing while a session starts, and a kill can come at any step of a start, so the
invariant follows the start step by step: which of `queue` and `_resume` is there and complete (`Directories`), how far
linking and unlinking have come (`Progress`), that the entries in memory have the names and marks of the files they were
read from or linked to (`Mirrored`), and that everything ever found is in the directory that the next start reads (`Surviving`, in terms of `Source`).
`FindingsSurvive` is about every place of the program, the start included; it has three exceptions, named in its comment and in section 5.
`read_testcases` sorts by the number in the name; that its list has every file once is `OrderIsComplete`, proved from the
ranks of the files (`InOrder`), which is why `ReadFrom` is written with ranks.

Only model-checked: what the stages collect and try (`TokensAreRuns`, `PassedDetMeansTried`), and the extractors. Liveness and what recursive operators compute (the
extractors) are out of the prover's reach.

## 5. Findings

The run `import` violates what the documentation says: `sync_fuzzers` writes the case of the other
instance to the test file, but `run_target` sends `kl_messages`, which it does not set and which
`fuzz_one` deleted before it returned (`afl-fuzz.c:7869`, 1186, 7755). A freed list is sent, and saved under the name
`sync:...` (4129). `docs/parallel_fuzzing.txt:50-52` says that instances import test cases found by others.

Also met while modelling, without a run of its own. Disagreements of the code with its own comments,
assertions or documents; the property that had to be stated around one is named:

- `best_child` can return a child with score -INFINITY below a white node (`mcts.c:689`, comment at
  683); without `-a` the assertion aborts, with it the loop does not end (`AssertionsHold`);
- with more regions than codes the match of the previous code is reused (`mcts.c:1065`), and the
  assertion in `add_seed_to_node` fails (`wild` has such entries);
- a leaf that gets its first child stays marked as fully explored (`mcts.c:1050`, comment at 1051);
- messages are cut from the file as if all its regions were there; after `remove_null_regions` took one
  from the middle they are shifted (`aflnet.c:1132`, `aflnet.h:90`; `MessageSeq`);
- the speed x size factor is never used: the second test of `update_bitmap_score` repeats the first, and an entry with as many
  states takes the byte also when it is slower and larger (`afl-fuzz.c:2220`, 2224, comments at 2200 and 2222; `MostStatesWin` speaks of states only);
- `pending_favored` is decremented for entries it did not count and wraps (`afl-fuzz.c:7745`, 177);
- `could_be_bitflip` counts bits of a little-endian word from the lowest, `FLIP_BIT` (6151) those of a byte from the
  highest, so a sum like e0 00 + 32 is left out as a flip that no stage makes (`afl-fuzz.c:5775`, comment at 5773;
  `AcrossBytes` in `PassedDetMeansTried`);
- `extract_response_codes_dtls12` stays at a record without content for ever (`aflnet.c:1003`; `Returns`);
- "break if the response does not adhere to the known format(s)" (`aflnet.c:660`) does not break when fewer than six bytes are left: the
  difference of unsigned numbers is huge, a code is taken from behind the buffer, and a length near 2^32 leads back into the buffer (675); the
  newline after an identification is looked for beyond the buffer (647). `CodesGrow` is about the codes read from the buffer alone, and `Returns` excepts
  the wrapped length and a read of memory that is not there;
- without a fork server, and in persistent mode, `send_over_network` waits for a process that is collected only after
  the loop (`afl-fuzz.c:1234`; `docs/env_variables.txt:96-98` presents `AFL_NO_FORKSRV` as slower only; `RunsEnd`);
- a kill in `nuke_resume_dir` leaves a partial `_resume`, which the next `-i -` reads before it deletes the complete
  queue (`afl-fuzz.c:4718`, 4630, comment at 4707-4710); a `_resume` left by an interrupted resume survives a fresh start
  and replaces a newer queue later: `rename` (4715) fails also when it holds only `.state`, as a resume of an empty queue leaves it, and then
  the newer queue is deleted (4765) and nothing can be read (`hist.risk` in `FindingsSurvive`);
- the rename of the crash directory may fail ("Ignore errors", `afl-fuzz.c:4803`), as when it is tried twice in a second; the crashes are then deleted (4808), and the
  program ends because their README.txt is not (`CleanOutDirFails`; `FindingsSurvive` does not count them).

Other behaviour of the models that a reader may not expect:

- a black node can get two children, against the assertion at `mcts.c:778`; `OnlyKnownFailures`
  admits it as `one_child`. With `-a` it is then given up although only its first child is exhausted (`mcts.c:784`), which is why
  `GivesUpOnlyExhausted` speaks of runs in which that assertion has not failed;
- a response code 999 is taken for a simulation node (`mcts.c:1058`); `wild` has such entries;
- `-a` is commented as exit and implemented as ignore (`afl-fuzz.c:9181`, `logging.c:287`);
- `likely_buggy` is computed before the last `net_recv` (`afl-fuzz.c:1209`), and
  `response_bytes[i]` does not hold the answers to message i that come after its poll
  (`afl-fuzz.c:1205`, comment at 366);
- an entry is marked as fuzzed only for the state it was first fuzzed for (`afl-fuzz.c:7741`; the
  comment at 791 has `was_fuzzed` state-aware);
- "the states hashtable should always contain an entry of the initial state" (`afl-fuzz.c:1028`) fails
  when the first response has no code, and without any response `state_ids` is indexed while it is
  NULL (`afl-fuzz.c:736`, 740); `OnlyEmptyStartFails` says that nothing else ends the program;
- `choose_seed` with FAVOR and many seeds never stops at a favoured seed when `pending_favored` is 0: it
  returns what the last of five rounds left (`afl-fuzz.c:805`);
- seeds of the dry run compete for bytes before their states are counted (`afl-fuzz.c:3690`);
- `pending_favored` keeps the number of the previous target state when no score changed
  (`afl-fuzz.c:2265`, comment at 9348);
- with `AFL_NO_ARITH` interest8 still leaves out what only arithmetics produce (`PassedDetMeansTried` is about runs
  without it); the deterministic stages run for the first M2 chosen of an entry only;
- a region that begins with the last byte of a file is lost, a TLS record of six bytes at the end of the responses is
  not seen, and an SMTP line that is too short gives the code of the line before it; the test
  `buf_size - ... - record_length < 0` is never true, its operands are unsigned; `CodesAreReplies` leaves DNS and
  DICOM out, whose codes after the first message are not aligned with it;
- `virgin_tmout` is updated before a hang is verified (`afl-fuzz.c:4193`); under `-C` a crash file has the
  messages and signal of a calibration run (`FilesReproduce` excepts it);
- the alarm between the collection of a process and `child_pid = 0` signals a number that is no longer in use; a stop between the
  fork of the server and the read of its number leaves a process behind;
- a file of the other instance that is empty, or not yet listed, when its number is passed is never looked at again
  (`afl-fuzz.c:7828`; `SyncLooksAtAll` counts it as raced).

## 6. Not modelled

Session replay, the test-case tools (`afl-tmin`, `afl-showmap`, `afl-analyze`, `afl-cmin`), the compiler wrappers and passes,
`libdislocator` and `libtokencap`, the prototype in `MCTS/` and the utilities: they are sequential
programs around one execution, rewrite text, or are not part of the fuzzer. The status screen, the statistics and plot files, CPU
binding, the checks of the environment and of the command line change nothing the models speak of. In the modelled parts
the scores that are real numbers (UCT, state scores) are reduced to an order or to a free choice, hashes and checksums
are taken to be free of collisions, and time is not measured: a timeout may come at any moment. The target of `Execution` is one process,
it does not fork others that keep the map; of the output directory, `Campaign` leaves out the tokens in `queue/.state`, `fuzzer_stats`, the place a
resumed session starts at, and the hangs, which are treated as the crashes are.

## 7. Plan

All parts that carry the fuzzer's own logic have a module, and all but the extractors a theorem. What is left to prove is
`TokensAreRuns`: it compares the tokens with the runs of a history, and needs what the eviction and the two sorts of the
automatic dictionary keep of its set of entries. `PassedDetMeansTried` and the extractors compute recursively and stay with TLC.
