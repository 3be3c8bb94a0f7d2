# Specifications of the MBASE SDK

TLA+ models of the MBASE SDK (`src/`), the TLC configurations that check them
on small instances, and TLAPS proofs of what matters most for every instance.
Everything is translated from the code; where a doc and the code disagree the
modules say what the code does.

## 1. The system

MBASE is a C++ library for programs that run a *program loop*: one application
thread calls `update()` on every object it owns, and every long-running object
owns one worker thread that runs its `update_t()`. There are no condition
variables, and almost no locks: the two threads speak through pairs of volatile
flags (`processor_signal`). On this rest an inference layer over llama.cpp, a
protocol server for it (MAIP), networking and program infrastructure (`pc`), and
an MCP client and server library over a vendored HTTP library.

| Part | Source | State | Operations | Talks to |
|---|---|---|---|---|
| Parallel state machine | `include/mbase/framework/logical_processing.h`, `thread.h` | two flags per signal, `mIsProcessorRunning`, the thread handle | `set_signal`, `start_processor`, `stop_processor`, `set_signal_finished`, resets | base class of everything below that works in parallel |
| Text-to-text processor | `mbase/inference/inf_t2t_processor.cpp`, `inf_processor.cpp` | six signals, registered / running / failed flags, the llama context, token vectors, cursors | `initialize`, `execute_input`, `next`, `destroy`, `update`, `update_t`, caching modes | its client (callbacks), its model, llama.cpp |
| Text-to-text model | `inf_t2t_model.cpp`, `inf_model.cpp` | load/unload signals, the llama model, list of processor watchers under a mutex, occupied context length, LoRA adapters | `initialize_model`, `destroy`, `register_context_process`, `unregister`, `update` | updates and destroys its processors |
| Embedder | `inf_embedder.cpp` | as the processor, smaller | `initialize`, `execute_input`, `next`, `destroy`, `update` | model, client |
| Clients | `inf_t2t_client.cpp`, `inf_client.cpp` | chat history | `add_message`, callbacks | processor |
| MAIP program | `inf_program.cpp`, `inf_maip_*.cpp` | users, sessions, contexts of each session, model descriptions, loading and loaded models | about thirty requests; each looks up the session, checks authority, changes maps and state files | models, processors, the MAIP server, `pc_state` |
| MAIP server and packets | `inf_maip_server.cpp`, `maip_parser.h`, `maip_client.h` | an accumulator per connection; the builder's key-value lists | `on_data`, dispatch, build, parse | networking, the MAIP program |
| Networking | `pc/pc_net_manager.cpp` | servers, peers, three signals per peer, packet buffers | accept, read, write, disconnect, `update`, `update_t` | MAIP server |
| Program infrastructure | `pc/pc_state.cpp`, `pc_io_manager.cpp`, `pc_stream_manager.cpp`, `pc_config.cpp`, `pc_diagnostics.cpp`, `pc_program.cpp` | key-value state with a file format, I/O job queue, configuration | `initialize`, `set_state`, `update`, stream reads and writes | files |
| MCP server | `mbase/mcp/mcp_server_base.cpp`, `mcp_server_http_streamable.cpp`, `mcp_server_stdio.cpp`, `mcp_server_client_state.cpp` | registered tools, prompts and resources, a session table, one message queue under a mutex, pending requests | register, unregister, handle a message, cancel, notify | HTTP handler threads |
| MCP client | `mcp_client_base.cpp`, `mcp_client_server_state.cpp`, `mcp_client_server_http.cpp`, `..._stdio.cpp` | pending requests by id with their timers, the payload queue of the sender thread | connect, call, `update` | server |
| JSON | `mbase/json/json.cpp` | a value tree | parse, serialise, access | MCP |
| Containers | `include/mbase/` `list.h`, `set.h`, `unordered_map.h`, `vector.h`, `string.h` | nodes, buckets, a tree, a buffer with size and capacity | the usual ones | everything |
| Timers, events, thread pool | `framework/timer_loop.h`, `event_manager.h`, `thread_pool.h` | timer list, listener lists, free-slot stack | run the timers, dispatch an event, run a job | MCP client, `pc_program` |

Vendored code (`external/`), llama.cpp (an empty submodule directory), the
examples, the Python binding and the scripts are outside.

### What is hard here

* **Flag handshakes without locks.** The owner decides from `mSignal`,
  `mSignalState` and `mIsProcessorRunning`, read one at a time, whether the
  worker is busy, has finished, or must be started. Every pair of steps can
  interleave; the windows are a few instructions wide and no test hits them.
* **Callbacks inside `update()`.** The application calls back into the very
  object that is updating: `next()` from `on_write`, `destroy` and `delete` from
  `on_destroy`, `initialize` again from there.
* **Two phases everywhere.** A job is finished by the worker and reported later by
  `update()`; what the application does in between acts on a half-reported state.
* **Lifetimes.** Models, processors, contexts, watchers and sessions refer to each
  other by raw pointer and are freed by different parties.
* **Cursor arithmetic** on the KV cache, in three caching modes.
* **Queues shared by HTTP threads and the loop**, with cancellation, timeouts and polling.
* **A network that delivers pieces**, under a reader and a writer thread that share buffers
  without a lock, and a request that is put together from them.
* **State files rewritten in place**, with a kill at any point.
* **Hand-written containers**: loops erase where they stand, strings keep their own terminator,
  and every part above is built from them.

The full list of hazards, each at its line and with the properties that cover it,
is `hazards` in `PROJECT.json`.

### What makes each part correct

* *Parallel state machine*: at most one worker, joinable until the object is gone;
  a signal is high for as long as its job may run; a completion is never lost; no
  call blocks for ever.
* *Processor*: no job touches a context that is gone; every context is owned by a
  registered processor or about to be reported; the two threads never share the
  token vectors; initialisation is reported truly; the end of every generation is
  reported; a decode has logits to sample from; what the language model sees is what
  the caching mode promises.
* *Model*: the occupied context length is the sum over the registered processors and
  within the total; the model outlives the contexts made from it; the list mutex is
  always released.
* *MAIP program*: sessions, contexts and models refer only to live objects; nobody grants itself
  rights; a restart brings back what was there; an answer goes to who asked.
* *Networking and MAIP server*: bytes arrive once and in order; a request in pieces is put together
  from its own; reads, disconnects and requests are answered.
* *MCP*: every request is reported once, to the caller that made it; a cancellation affects only its
  request and only in time; a list the client holds is current or it has been told.
* *State files*: what the application gave a name is what is loaded again.
* *Containers, timers, events, pool*: what a container holds is what its caller put there; a walk
  that erases or calls back meets every element once; a job that was taken runs.

## 2. The modules

| Module | What it is | Uses |
|---|---|---|
| `LogicalProcessor` | the parallel state machine: one owner, its worker threads, any set of signals | |
| `T2TProcessor` | `InfProcessorTextToText`: every method and every branch of `update` and `update_t` | composed with `LogicalProcessor` |
| `ProcessorLifecycle` | abstract: the life of a processor's context, as the rest of the library relies on it | |
| `T2TModel` | `InfModelTextToText`: loading, the watcher list, registering, destroying, LoRA, the destructor | composed with `LogicalProcessor` and one `ProcessorLifecycle` per processor |
| `Conversation` | abstract: what the caching modes promise | |
| `KvCache` | the cell and cursor arithmetic of the processor's jobs | implements `Conversation` |
| `EmbedderProcessor` | `InfEmbedderProcessor` with its worker | |
| `McpRequests` | abstract: a request is taken, pending, and reported once | |
| `McpClient` | one server connection of an MCP client: the application's thread, the sender, the HTTP server | implements `McpRequests` |
| `McpServer` | an MCP server over stdio: its reader, the application, and a client that may send anything | |
| `McpHttpSession` | the POST handlers of an MCP server over HTTP, the messages of each POST and the session they share | `McpHttp` renames what `McpServer` has too, so that one module can prove and one run check both |
| `MaipUsers` | users, model descriptions, their state files, crash and restart | `MaipAccounts` renames what `MaipContexts` has too |
| `MaipContexts` | models, sessions and contexts of the MAIP program | |
| `MaipServer` | how the MAIP server makes requests of what connections deliver | `Network` joins it with `NetPeer` |
| `MaipPacket` | the packet builder and both parsers | |
| `NetPeer` | one connection of the TCP server, with the remote end | |
| `TimerLoop`, `EventManager`, `ThreadPool` | the three, with callbacks that change what is being walked | `Scheduling` joins the first and the last with the embedder |
| `StateFile` | `PcState` objects and their files, moves, a disk that refuses, a kill between two writes | |
| `List`, `AvlSet`, `UnorderedMap`, `Vector`, `CharacterSequence` | the containers, against the value each stands for | |
| `LogicalProcessorProofs`, `T2TProcessorProofs`, `McpClientProofs` | theorems of these three | each extends its module |
| `T2TModelProofs` | theorems of `T2TModel`, and that `KvCache` implements `Conversation` | |
| `McpServerProofs`, `MaipProofs` | theorems of `McpServer` and `McpHttpSession` (`H!`), of `MaipContexts` and `MaipUsers` (`U!`) | extend `McpHttp`, `MaipAccounts` |
| `NetworkProofs`, `SchedulingProofs` | theorems of `MaipServer` and `NetPeer` (`N!`), of `TimerLoop`, `ThreadPool` (`P!`) and `EmbedderProcessor` (`B!`) | extend `Network`, `Scheduling` |
| `MC*` | the instances TLC checks | |

```
             LogicalProcessor
              /            \          (composed: shared variables)
      T2TProcessor        T2TModel              McpClient --implements--> McpRequests
        |       \            |
  KvCache     implements   one life per processor
  (its jobs)      \          |
        |        ProcessorLifecycle
   implements
   Conversation
```

`McpHttp`, `MaipAccounts`, `Network` and `Scheduling` put modules with like names under one roof, for one run and
one module of proofs; they add no behaviour.

The layers above and below are modelled side by side, each with its neighbour as environment: a
connection of `NetPeer` delivers what the network sends, `MaipServer` takes any delivery in pieces
and says which requests run, `MaipPacket` says what a packet becomes, and `MaipUsers` and
`MaipContexts` say what the requests do.

Some MC modules hold several instances: the initial state chooses a *part*, and only the variables
of that part ever change (`InPeer`, `InServer`, ...). Such a run checks the same behaviours
as one run for each part would, and its properties are conjunctions of the named parts' properties, which
are defined and explained in the component modules.

`PROJECT.json` gives, under `map`, the source lines of every definition.

### Conventions

* An action makes at most one access to a flag the other thread can change. What the
  owner does between two such accesses is one action; what one thread does with data
  nobody else touches is part of it.
* The flags are `volatile bool`, not atomics. The models interleave their reads and
  writes in program order. Compilers keep that order for volatile accesses, the processor
  need not: reorderings by the hardware are outside the models.
* `caller` is where the owner is inside `start_processor`, `stop_processor` or
  `~logical_processor`; `rest` is what `update()` or a destructor has still to do; `place`
  is the callback the application code is in. The three are the program counter of the
  owner's thread.
* A method that returns an error and changes nothing is a stuttering step. A `_sync` method
  is the plain call followed by a wait for the signal to drop.
* What the application does is the constant `Uses`, a set of pairs: a method together with
  the circumstances that matter for it, and the place it is called from. Runs and theorems
  say which uses they assume, and a run of the wrong kind of use shows what then happens.
* Definitions marked as mutants are variants of the one that follows them; they are in no
  next-state relation and show that a property can fail.

### LogicalProcessor

`mSignal` and `mSignalState` are the two flags of `processor_signal`, by signal;
`mIsProcessorRunning` and `mThreadHandle` are the members of the same names. `phase`, `at` and
`todo` are the program counter of each worker: begun, in `update_t`, in the job of signal `at`,
between the two writes of `set_signal_finished` (`finish`), returned (`exit`), gone. `owed` is a
history variable: the signals raised whose completion `update()` has not consumed.

| Action | Code |
|---|---|
| `SetSignal`, `ResetSignals` | `set_signal`, `reset_signal_state`, `reset_signal_with_state` |
| `CallStart`, `StartFindsRunning`, `StartFindsStopped`, `StartJoin`, `StartRun`, `StartRunFails` | `start_processor`: the test of `mIsProcessorRunning`, `stop_processor` with its join, the assignment, `run()` with a second join and the thread's creation |
| `CallStop`, `StopJoin` | `stop_processor` and `~logical_processor` |
| `Enter`, `Look`, `FinishState`, `FinishSignal`, `Return`, `Exit` | the worker: `update_t`, one `get_signal`, the two writes of `set_signal_finished`, `mIsProcessorRunning = false`, the end of the thread |

Which signals a pass of `update_t` looks at, and in which order, is open here and decided by
the module that composes it.

### T2TProcessor

The flags are the members of the class. `mModelContext` is null or live; `logits` says whether the
llama context holds logits to sample from; `continueDue` is the moment between
`set_signal_finished()` and `mFinishState = CONTINUE` at the end of `_decode_input`. The actions
`initialize`, `execute_input`, `next`, `set_inference_client`, `halt`, `resume`, `destroy` and
`Delete` are the methods with their guards; `UpdateDestroyed` .. `UpdateDecode` are the branches of
`update()`, in its order; `Enter` and `Before` give the order in which `update_t` looks at its
signals, and `InitializeContext`, `DestroyContext`, `DecodeInput` and `DecodeNext` are its jobs, each
ending with the first write of `set_signal_finished`. `destroy()` reads two flags of the worker's, `is_registered()` and
`signal_destroying()`, in two actions (`destroy` and `DestroyGoesOn`, with `asked` between them): the second may raise
the signal on a processor that was registered when the first looked. The processor's LoRA signal is looked at and
never raised, so its job is unreachable and absent.

`life` maps the flags and the progress of the destructor to the stages of a `ProcessorLifecycle`. Its stage *lost* is the
one of a processor whose `destroy()` came too late (`DestroyCalledLate`): the signal is up, no context is there, and
nothing leads out of it but deletion.

### T2TModel

The registered processors are a list of watchers: heap nodes that hold a pointer to a processor and
the length it was counted with. A processor points back to its newest node, and nobody clears that
pointer. `watcher` and `mTargetWatcher` are the two directions; a node outside the list is free memory
and may be handed out again. `mProcessorListMutex` says who holds the list's mutex.

* Each processor is one `ProcessorLifecycle`: `lives[p]`. Its worker moves by itself
  (`ProcessorWork`), in particular it makes its context while the model's worker may be freeing the
  model. Its input and decode signals, which hold back the processor's `update()` when raised, are
  left out: an update reports a completion whenever it is made.
* `stranded` holds the processors whose raised signal no worker will ever see: the lost
  wakeup of `T2TProcessor`, carried over as a possible outcome of a processor's `start_processor`.
* One worker thread identity is enough: `OneJoinableWorker` is proved.
* `register` and `RegisterListed` are the two parts of `register_context_process` (the
  processor's worker is started before the node is in the list); `unregister` and `Unregistered`
  those of `unregister_context_process`, which returns with the mutex locked.
* `destroy` walks the list without the mutex (`DestroyNext`), then raises the signal; the worker
  takes the mutex, calls `destroy_sync()` of each processor and waits (`DestroySync`, `Awaited`,
  `DestroySyncReturns`), and frees the model. Both threads ask a processor `is_registered()` and raise its signal in
  two steps (`AskRegistered`, `RaiseDestroy`; `asked` holds, for each thread, the processor that said yes). When
  the processor's own destroy ends between the two, its life is *lost*, and `destroy_sync` waits for ever.
* The walk of `destroy` goes on where `erase` leaves it, which for the last of several nodes is the one before
  (`Resumed`).
* `update` and the destructor walk the list under the mutex, one processor at a time, and
  the processor's callbacks are places the application calls from.
* A failed load drops its signal before it writes `mIsInitFailed` (`failedDue`), so `update()` may
  report it with `on_initialize`, and nothing ever clears the flag. Both are in the model.
* `update()` reads a node after it has erased it (line 1089); the value read is taken to be intact.
* The methods that lock or walk the list are called from the loop and the model's callbacks only.
  From a processor's callback, `register_context_process` would lock the mutex the thread holds, and
  `destroy` would invalidate the iterator of `update`.

### KvCache and Conversation

`cells` are llama.cpp's KV cells, each a position and a token; `SeqRm` and `Decoded` are the two llama.cpp
calls that change them, modelled from how the processor uses them. The actions are the jobs
`_decode_input`, `_decode_kv_locked_input` and one round of the loop of `_decode_next`, which either
decodes a token or finishes the generation and runs `_decode_cached_logits`. Batching and timing change
nothing that is modelled. `SeqRm` keeps the cells before a position by counting them, where a filter would be
shorter, because the prover can follow it. `Conversation` says what an application may rely on: nothing before
an input in the default mode, the whole conversation in store mode, the locked tokens in lock mode.

### EmbedderProcessor

The processor again, with three signals and its own one-worker `start_processor` (`owner` and `worker` are the
program counters). `destroy()` starts its worker before it raises the signal (line 343), so that the worker may look and leave;
`destroy()` reads `is_registered()` and `signal_destroying()` apart (`DestroyGoesOn`), as the processor's does;
`next()` may run without a client, and then consumes a vector nobody sees; the result of an embedding is not looked
at (line 446); `resume()` asks nothing, so that the worker may compute on a null context (`EmbedNothing`, a failure), and starts no worker. These are recorded in `excused`, `failed` and `unread`, and the properties say
what holds otherwise.

### McpClient, McpServer, McpHttpSession

In `McpClient` a request lives in `mRequestMap`, in the sender's hand (`found`), in `mQueuedResponses`, with `update()`
(`movedResponseObject`) or has been reported (`called`). `RunTimersDue` is the timer with any subset of requests
already visited when it meets one without a timeout, where the code loops for ever with the map locked (`spin`); `start_processor`
may find the sender about to leave. The server answers late, twice, wrongly or not at all.

In `McpServer` the reader answers most messages itself and queues calls for `update()`, where features run and
may change features. `hand` is a list that was built and not yet sent, or a feature that was looked up and not yet queued.
`dangling` holds the calls whose feature was unregistered while the reader or a queue had a pointer to it. Using it
(`UseFreed`) may end the program; that it may also go well is the ordinary step.
`view` and `told` are what the client has been listed and of which kinds it was told a change.

In `McpHttpSession` each POST is a thread: `pc` is its place, `mSynchronizer` the holder of the session, `messages` how many
messages of its body it has read (a JSON-RPC batch has several, and none is an empty one, a response or a notification
that comes before initialization, which all leave `mIsRequestProcessed` alone), and
`send_mcp_payload` is three separate writes (`SetContent`, `SetProcessed`, `ClearResponse`) that take no lock against
`SetResponse` of the next POST. How a message is handled (now, queued, without an answer, or cancelling another) is
`McpServer`'s business and chosen freely here. A cancellation compares ids only, so it may reach any queued call. `batched` and
`stuck` are the sessions where a POST had several messages, and where one may never return. `Sound` says which POSTs the
promises are made to: those of sessions without batches, and on a stateless server all, as long as there was no batch at all, since
a call that a batch leaves behind writes to the stack of a handler that has returned. Over HTTP a server sends no
notifications and asks nothing (`mcp_server_base.cpp` 398, `mcp_server_client_state.cpp` 51), so nothing else uses the response.

### MaipUsers, MaipContexts

A request of `MaipUsers` changes the maps and sets `place` to the file it is about to rewrite; `UpdateUserFile` and
`UpdateDescriptionFile` do it, `Crash` may come before or tear it, and `Restart` loads what is there. Keys are written in
the order of the hash map's buckets, so a torn file may hold any of them without another. A description's file that was torn
before its own name loads as a description of another name, or of none: `adrift` names these, a known loss.
`by` records who caused the step.
In `MaipContexts` the workers of models and contexts run beside one thread of requests and updates. A failed load drops
its signal before it sets the failure flag (`WorkerLoads`, `WorkerFails`), so `update()` may take it for a success.
`awaiting` is the connection that asked a context last. The session's `on_write` calls `next()` before it looks whether the token was the
last, so a context that has begun to answer never ends: it sends `on_finish` again and again and is never ready for another
input (`UpdateDecoded`). The early returns of `exec_next` before `set_network_peer` are unreachable, since `next()`
returns neither flag for a context that MAIP uses (nothing halts one). `inf_create_context` is refused, after
`is_available`, for the file of an embedding model. Using a deleted
object puts it in `fault` and `Die` restarts the program; `used` records the three orders of calls that are known to lead there.

### StateFile

A file is what each `write_data` of `update()` wrote: a header with a count, then the structs. `update` is the set of what
the call may lead to (not opened, cut anywhere, whole); every caller of it in the code uses it here: `Update`, `Destroy` and both
initializations. `Loaded` reads as the code does, with the cursor that `advance_safe` leaves on the last struct. `told` is what the
application gave a name, `spoiled` the names a known loss has happened to; a complete write or a load makes a name whole again.
`MaipUsers` uses the same files more coarsely, by which keys survive.

### NetPeer, MaipServer, MaipPacket

`NetPeer` has the accesses of `update_t` to flags and buffers as actions (`Recv`, `ResetRead`, `Send`, `ResetWrite`, `ClearWrite`), and
`mishaps` records which of the known losses has happened. Two runs of adjacent accesses are one step each: the test of the read
signal, `recv` and `set_signal_state` (`Recv`), and the test of the read state, its reset and `on_data` (`UpdateData`); what can fall
between them is a read asked for while data waits, the loss `Recv` records. `MaipServer` gives `on_data` the whole buffer, as the code
does, whatever came; its accumulators are keyed by the socket, which is -1 for a closed peer. A request to create
a context is answered when the program has a result (`held`, `ProgramAnswers`), on the connection the session has then, which
may be another: both are then `odd`. The other callback that may return false, that of `inf_load_model`, never does, because
`inf_load_model` answers INF_LOADING_MODEL. Tokens sent after `exec_next` are not in this module. In `MaipPacket` strings are
sequences of characters, "MAIP" and "END" one each; the parser is a function that walks by index and reports errors as
the code's parser does.

### Containers, timers, events, pool

Each container is its memory (nodes with links, buckets, a tree with parents, cells, bytes with the NULs behind them) and a
history variable with the value it stands for. Every method is an operator on the memory; the action applies it
and changes the value as the method's user expects. `TimerLoop` and `EventManager` walk lists whose `erase` behaves as `List`'s does,
with handlers that register and remove at any point. `ThreadPool` has `execute_job` and the routine of a slot
step by step, on Windows with `halt` and `resume`, which elsewhere do nothing.

## 3. What the runs check

| Run | States | What it shows |
|---|---|---|
| `machine` | 1 488; thread creation may fail | at most one worker and the handle names it; none after the destructor; a signal is high throughout its job; a completion is never lost; every call returns |
| `processor_anywhere` | 173 300 | any lawful method from the loop or any callback: no job on a context that is gone (`ContextNotUsedAfterFree`), no context lost (`ContextAccountedFor`), no job after the destructor, no race on the token vectors and parameters (`DataNotShared`), `on_initialize` told truly, and the processor is a `ProcessorLifecycle` |
| `processor_flow` | 2 551 | the documented flow with fair threads: a decode has logits, the end of a generation is neither forgotten nor reported without a finish state (`FinishReported`), `initialize` ends, a worker that is created serves the signal it was created for, completions are consumed (`JobsServed`), and the processor is a `LogicalProcessor` |
| `model` | 3 006 598 | a model and two processors that just fill its context total: every live context is in the list and counted (`ContextsAccounted`), no context outlives the model and no list node points to a deleted processor (`NothingDangles`), `release_object_watcher` writes only to its own node |
| `model_live` | 29 635 | a worker created for `destroy` does destroy the model, unless it waits for a processor whose destroy signal nobody serves, and the model is a `LogicalProcessor` |
| `mcp_client` | 450 657 | two requests, perhaps one without a timeout: each in one place at a time and reported once; a payload queued in a session carries its id; the server's own requests are answered once; `McpRequests` is implemented; every request is reported in the end unless the timer's loop spins |
| `mcp_server` | 1 427 631 | stdio: two calls and one query against features that change and go, with cancellations: `StdioAnswersKept`, and each call is answered unless it was cancelled or its freed feature ended the program. HTTP: three POSTs, one of them perhaps a batch of two, on two sessions of a stateful or a stateless server: `HttpAnswersKept`, `LiveResponse`, and each POST returns but for the named circumstances (both `EveryCallAnswered`) |
| `maip` | 840 997 | two users without models; one user with two descriptions; two sessions with two contexts on one model, one session with two connections: `UsersKept` across crashes, `RightsKept`, `ContextsKept`, `CreationsAnswered` |
| `network` | 351 675 | one connection with three bytes coming in and two messages going out; the MAIP server with two connections and requests of no, fitting and over-long data (`DataInOrder`, `Served`) |
| `scheduling` | 196 191 | three timers of the three kinds, one of which calls back into the loop; a pool of two threads and three jobs, on Windows and elsewhere; the embedder with two inputs (`WorkKept`, `WorkDone`) |
| `sequential` | 322 382 | the KV cache against `Conversation` (`KeepsConversation`); five containers and the event manager against what they stand for, the state files against what they were told (`Represented`); strings and MAIP packets (`TextsComeBack`) |

A last run, `lost_decode`, shows the code doing what its documentation says it does not: `next()` while the last worker is
leaving `update_t` finds `mIsProcessorRunning` still set, `start_processor` returns, the decode signal is never attended to,
and `next_sync()` never returns (`DecodeCompletes`).

### What the code does not keep

A property of a passing run says what holds. Where the code was found to break a promise in a known way, the
property names the circumstance as an exception, and the model records when it happened. The exceptions are results:

* *Processor and model.* `mIsInitializeFailed` is cleared only by a destroy job, so an `initialize` after a failed one is
  reported with `on_initialize_fail` even if it succeeds. `execute_input` before `update()` has reported the last
  decode overwrites `mFinishState`: `on_finish` is never called for that generation. Store mode cuts cells from
  `mLogitStartIndex - 1` on: each response costs the conversation one prompt token and leaves a hole in the positions.
  `mLogitStartIndex` is 0 for "no input" and for an input of one token on an empty cache alike, so that in lock mode such an
  input is not cut off and stays in front of the next one (lines 712 and 828). Switching from lock to another mode and back, or out of
  the logit store, leaves cells and cursors of the old mode behind.
  `destroy()` of the model while a listed processor has not been reported initialised frees the model under the
  context being made. `start_lora_operation()` raises a signal and starts no thread. The first and the two last are outside the
  uses the runs assume (`Uses`); the modules contain the steps. A second `destroy()` that reads `is_registered()` before
  and `signal_destroying()` after the end of the worker's destroy raises the signal on a processor that is destroyed already:
  no worker looks at it, `update()` returns early from then on, and `destroy_sync()` does not return. `IsProcessorLifecycle` has
  a stage for it ("lost"), `DestroyAttended` an exception. Neither `next()` nor `resume()` asks whether it is its turn: the
  one decodes before any input, the other sets `mIsRunning` behind a destroy; the runs' uses leave both out.
* *Embedder.* Besides the lost wakeup and the late `destroy()`: `destroy()` may find its own worker gone (line 343), a finished and an abandoned batch share
  one completion state, a failed embedding is reported as done, `next()` without a client never finishes.
* *MCP.* A request without a timeout makes the client's timer loop for ever. The last write of `send_mcp_payload` can clear
  the response object of the next POST, which then never returns. A cancelled call's POST is never answered, and a cancellation may reach
  the call of another client with the same id. A POST that has only an empty batch, a response or a notification before
  initialization in it never returns, and blocks its session. A batch gets one answer, although a comment says that batches are
  supported (`mcp_packet_parsing.h` 76): the first clears the response object, the others are dropped; a call that is still queued when its POST returns
  is answered into the next one, or, on a stateless server, into freed memory. A feature that is unregistered while a call of it
  waits is used after it was freed. A list
  change from the callback of a client's result locks a mutex twice.
* *MAIP program.* Flags added by `inf_modify_user_set_authority_flags` are not saved. A crash inside a rewrite loses keys or
  the whole user; a file cut right behind its header has the magic bytes read as the length of a key and kills the program at
  every start (`OnlyCutsKill` says nothing else makes one; `MaipUsers` leaves this cut out). `destroy` of a ready context, of a session with a context that is initialising, and `unload` of a model with contexts
  use freed objects. An answer goes to whichever connection of the session asked last. A context that has begun to answer never stops.
* *MAIP server and networking.* `on_data` is given the whole buffer whatever `recv` returned, so a short read is filled
  up with old bytes. An accumulator outlives its connection when the socket is already -1. A custom request is never answered, nor read
  after; a request to create a context is answered late, perhaps on another connection. A read asked for while data waits overwrites it; one asked for between the state and the signal is forgotten.
  A partial `send` drops the rest, and a write between two steps of the thread is wiped. A packet builder that is not cleared
  announces its old length first; a value of full length, or with a line feed, does not come back.
* *Containers.* `list::reverse()` misplaces the last node; `erase` of the last of several returns the element before, so that a
  timer loop runs that one twice; moving a set loses its elements, a moved-from map divides by zero; a string's `substr`
  over its end takes the terminator along, `reserve` below the size wipes the tail, and `is_integer("-")` holds.
* *State files.* A failed write leaves the object unmodified and the file cut; a file that does not open is taken for an empty
  one and overwritten by the next update; the move assignment drops what its target had not saved; an object that was moved from
  divides by zero once it is initialised again.
* *Timers and pool.* A timeout that has fired keeps its status and cannot be registered again; a handler that removes the next
  timer leaves the walk on a freed node. A job that finds no free slot is dropped; on Windows a thread may suspend itself after it was
  resumed.

### Bounds, and why they are enough

* *Threads*: two identities. A second worker beside a first is the hazard, and a third adds nothing; the
  theorems hold for any number.
* *Signals*: the processor's and the model's own; two in `machine`, enough for a job beside a raise
  of another signal.
* *Processors and nodes*: two processors whose lengths (2 and 1) exactly fill the total (3), two list
  nodes. So registering is refused for want of room, a node is freed and reused while another
  processor is listed, and a walk meets a freed node before and after a live one. A processor can be
  listed, released and listed again.
  `model_live` has one processor: the wait that matters is of the model's worker for one processor.
* *KvCache*: six cells, prompts of two and three tokens over two tokens (`LongPrompts`), every response.
  A locked prompt, two inputs and their responses fit, and the context is filled to the last cell. The
  mode is switched once, from the default (`KeepsMode`).
* *McpClient*: two requests, each with a timeout of one tick or none, so that one is queued while another is answered, timed out or
  spinning; one change of roots and one request of the server.
* *McpServer*: two calls, a tool and a resource, each registered, changed or gone (`MaxVersion` 2), one query.
  Cancelling needs two messages, of which one may be the wrong one. *McpHttpSession*: three POSTs, because the third overtakes what the second
  left behind the first; two sessions, so that one may be refused or be another client's; one of the POSTs has up to two messages, so
  that an answer of a batch can follow another (`MaxMessages`).
* *MaipUsers*: a superuser, a static user and a third kind; two names are enough for a rename onto another description;
  two limits, one of which caps the other. *MaipContexts*: ids up to 2, so that a second context may get the wrong one; room for both on one model.
* *NetPeer*: a buffer of two bytes, a stream of three: one full and one short read. Messages of two bytes, so that a partial send exists.
  *MaipServer*: a buffer of two cells, data of none, one buffer's rest and more; two connections, one of which asks twice.
* *Timers*: the limit is 1 and three registrations are made, so that the limit, which is compared with `>`, is passed. *Pool*: more jobs
  than threads. *Embedder*: two inputs of up to two vectors.
* *StateFile*: two objects of one file and two values, one object of two files; two keys, so that a file is cut behind its
  header, in the middle and at its end.
* *Containers*: lists of three and two elements over two values; trees of four keys, enough for double rotations and for the removal of a node
  with two children below the root; five keys in three buckets, three of them in one; vectors and strings that grow twice.
  *Packets*: types, strings, keys and values at their limits, one over them, and with characters that delimit.
* Counters that are cut off are named as bounds in the modules (`MaxRegistrations`, `MaxEdits`, `MaxInputs`, `Stream`, `Messages`, ...)
  and guard the environment's or the application's steps, never the library's. There are no state constraints.
* *Symmetry*, on thread identities, is used only in runs without liveness.
* `CHECK_DEADLOCK FALSE` is set wherever the system really may stop: a deleted object, an application that makes no
  further call, a remote end that is out of messages, POSTs that have all returned. `maip`, where a restart is always
  possible, and `mcp_client`, whose loop goes on, check for deadlock.

### Fairness

The specifications that liveness is checked under assume weak fairness of every worker and of what the
library does once the owner's thread is inside a call (`Library`, `OwnerStep`): both are threads of a
preemptive scheduler. They assume that the program loop keeps calling `update()` and leaves its
callbacks (`UpdateCall`, `LeaveCallback`): that is what the documentation requires of a program. No
other call is assumed to be made. `T2TModel` adds strong fairness of a worker's `lock_guard`
(`WorkerLocks`): the loop takes and releases the list mutex on every update, and that the worker gets it some time is
what the platform's mutex provides in practice rather than by contract.

Strong fairness appears for the same reason in `ThreadPool` (the mutex of the free slots), and where an action is enabled again and again
because the program's loop comes round: `McpClient`'s `RunTimersDue` and `TimerLoop`'s `StartPass` with time elapsed (time passes), the embedder's `update`.
`NetPeer` assumes that its thread runs and that `update()` is called; nothing is assumed of the remote end. `MaipServer`
assumes that the network delivers what was sent. `McpHttpSession` assumes fair handler threads, which poll. Its behaviours are
finite, so `mcp_server` asks for less: that some handler or `update()` runs on as long as any can.

In `mcp_server`, `network` and `scheduling` the fairness conditions of the parts are stated as one condition on the
disjunction of one action of each part. In a behaviour only one part ever moves, so that this is the conjunction of the parts' own
conditions; TLC's time doubles with each conjunct.

## 4. What is proved

TLAPS checks these for every value of the constants: any number of threads, signals, processors, nodes, and any set of
uses unless a set is named. `PROJECT.json` lists them under `theorems`.

*LogicalProcessor.* The inductive invariant `IInv` is the type invariant, the three safety properties, and two facts
they need. `HandleInv`: the handle is zero when `run()` creates a thread, because `stop_processor` came before;
without it a second worker beside the first could not be excluded at `StartRun`. `JobInv`: a worker between the two
writes of `set_signal_finished` has made the first, so dropping the signal does not lose the completion.
`TypeCorrect`, `OneWorker`, `SignalGuardsJob`, `CompletionKept` and, with the handle that is zero after the
destructor, `DeleteIsQuiet` follow. `EarlyReturnJustified` (the early return of `start_processor` finds a worker still
in `update_t`) assumes that thread creation does not fail: if it fails, `mIsProcessorRunning` stays set with no worker
at all.

*T2TProcessor.* `Implements` shows by cases on the actions that every step is a step of the machine above or leaves it
alone; so `IInv` holds of the processor without being proved again (`SameMachine` and `MachineInvariant` say that the
two instances are the same machine). `NoSharing` follows from it for any application: a running job holds its signal
up, and the guards of the owner's calls ask for that signal to be low. The theorems about the context assume
`LawfulUses`: `resume()` is called on a registered processor that is not changing, and a processor is not deleted
while it is initialising or destroying; the code checks neither. Their invariant, `ContextInv`, follows a pass of
`update_t`: a pass that has destroy ahead runs on a registered processor, past destroy the processor is registered or
`is_running()` will say no, past `is_running()` it is registered again, since only this worker could have ended that
(`PassInv`); a registered processor has a context (`RegisteredInv`); and what the destructor has waited for is gone
(`DestructInv`). `NoUseAfterFree` and `DestructedIsQuiet` follow. `ImplementsLifecycle` assumes in addition that
`initialize` is not called before `update()` has reported what is pending (`PatientUses`); `LifeInv` says that a
signal and its completion are up together only between the two writes, and that initialising and destroying exclude
each other. It is what justifies `T2TModel` using `ProcessorLifecycle` in the place of its processors.

`NoContextLeaks` and `ReportsAreTrue` need a third restriction, that `initialize` is not called again after it failed
(`SingleAttempts`): nothing clears `mIsInitializeFailed` then. `HeldInv` says that a live context belongs to a
registered processor or one whose `on_initialize` is still to come. `DecodesSample` and `FinishesAreReported` assume
an application that takes turns (`TurnUses`): `next()` is called from the callback of a batch or of a token that did
not end the response, which feed no input, and no input is fed before `update()` has reported the last one. In
`JobsInv` the jobs of input, KV-locked input and decoding take turns (`TurnInv`), the late write of `CONTINUE` falls
before the next job (`ContinueInv`), and logits are there wherever the next decode may be asked for (`LogitsInv`). All
four restrictions are constant-level; `MCT2TProcessor` evaluates them for the uses its runs assume.

*T2TModel.* `Implements`: with any number of processors the model's own signals, worker and thread handle behave as
the parallel state machine, so all theorems of that machine hold of it. The rest assumes `Uses \subseteq Orderly`, the
uses of the two runs: an application that waits for the callback of a step before it makes the next one with the same
object, and leaves its processors alone while the model unloads. On top of the machine's invariant, `IInv` follows an object through its life: a processor has a context from
the job that makes it to the one that frees it, and none without a live model (`LifeInv`); node and processor point at
each other for as long as the processor is on, except between the two parts of `register_context_process`
(`WatcherInv`, `RegisterInv`); the list and the walks are without repetition, and a walk that has the mutex meets all
that is listed (`ListInv`, `WalkInv`); nothing is being registered once `destroy()` was called, and everything is
destroyed when the worker says so (`DestroyInv`); a processor that said it is
registered stays one to be destroyed until it is told so (`AskedInv`); and the occupied context counts what is on (`CountInv`). Without
`WatcherInv`, which excepts the processor a worker waits for in vain, a released processor could take another's node along; without `RegisterInv` the processor between the
parts is neither listed nor gone. The total of a list's context lengths is the cardinality of the set of pairs of a
listed processor and a number up to its length, since a fold over a list of any length cannot be reasoned about.
`ContextsStayAccounted`, `NothingLeftDangling` and `ReleasesAreSafe` follow.

*KvCache.* `ConversationKept`, at the end of `T2TModelProofs`: outside the logit store every step of the cache is a
step of `Conversation`, or none, whatever the vocabulary, the prompts and the size of the context. Its invariant,
`CacheInv`, says that the cells are at their positions and begin with the locked ones, that the cursor is behind
the last of them, and that without an input there are only the locked ones (`mLogitStartIndex` 0); so what the processor cuts off is what the
abstract machine forgets. Two hypotheses are needed, and TLC has a counterexample without either: `LongPrompts`, since an input of one
token on an empty cache sets `mLogitStartIndex` to 0 and is taken for none, and `KeepsMode`, since
a change from lock or store mode to another leaves the old cells in front of the next input. Only entering the logit store is
free; what happens in it is outside, because its promise is not kept.

*McpClient.* `RequestsStay`, without any assumption: each request is in one of the map, the reader's hand, the queue
of responses, the hands of `update()`, or reported (`PlaceInv`); what a thread holds it holds only at its place in the
code (`ThreadInv`); a stateful server's session id is there before anything that was answered (`SessionInv`).
`RequestsImplemented` maps this to `McpRequests`: every step takes a request, reports one, or does nothing the
abstract specification sees.

*McpServer.* `StdioAnswersStay` assumes `QuietResults`: what changes a registered feature is not called in the
callbacks of the server's own requests, where the change would lock the client list's mutex twice; the code does not
check it. A request is in the reader's hand, in the queue or with `update()`, in one of them once, and answered when
in none (`OnceInv`); the mark of a queued call says whether a cancellation has reached it, and a call that ran is
answered or with the application's thread (`CancelInv`); no client is listed a feature before it is initialized, which
is why it need not be told of a change then (`ClientInv`); a request of the server goes from the map to one list of
results to its callback (`QueryInv`).

*McpHttpSession.* `AnswersKept` and `ResponseLives` rest on the assumption of `McpHttp` that a handler's name is none
of the model's marks (`HandlersApart`), and speak of the POSTs that are `Sound`. Of these a message is *open* from the moment its
handler has closed the one before until its answer counts as given; `PostInv` says what a POST has read at each of its places, and `OpenInv`
that one message of a client object is open at a time and that
`mIsRequestProcessed` is false then, so that the handler of the next one still waits. This is what the two unlocked
writes behind `mIsRequestProcessed` do not break, and why `PostReturns` has an exception for them and `AnswersKept` none. A
POST that becomes a batch leaves the invariant's reach with its whole session.

*MaipUsers.* `UsersStay` and `RightsStay` rest on the assumption of `MaipAccounts` that the constants fit the tables
of the code (`ConstantsFit`). A user's file tells what the program holds unless `place` says that it is about to be
rewritten (`FilesInv`), and a description that is not `adrift` has a file of its own name, likewise
(`DescriptionsInv`): hence a crash loses at most the change in hand, the known losses aside.

*MaipContexts.* `ContextsStay`, with `ConstantsFit` of its own: a processor that is changing has a living nominee
unless one of the three known orders of calls was used (`ProcInv`), what a session has in its maps works for it under
an id the counter has given (`MapInv`), there is an id for every context that is still initialising (`CountInv`). That the
connection of a session is the one that asked each of its contexts last, those named in `deaf` aside, is kept by every step by itself.

*MaipServer, NetPeer.* `InOrder`: the two halves of `DataInOrder`, for streams, buffers and requests of any size and any
number of connections. Of the server, `StreamInv` says that each cell on its way is followed by the rest of its request, and
`WholeInv` that a connection's own accumulation is the beginning of the data, with the rest at the head of
its stream; a connection exempt from it (a short read, an inherited accumulator) stays exempt. Of the peer, `PeerRead`
says that what was received is handed over or lies in front of the buffer, and `PeerWrite` that what was written has arrived or is in
the buffer, at each of the thread's places between `send` and the two resets, where a message may be wiped.

*TimerLoop, ThreadPool, EmbedderProcessor.* `WorkIsKept` gives `WorkKept` for each. The timer list is in the order of the
handler ids (`ListInv`), so a walk over a list that handlers change can be followed by one id: nothing from the iterator
on, and nothing behind the timer being called, has had its time yet in this pass, but for the steps back of `erase` on the last
element (`GivenInv`). A slot's handler, its thread's place and its index on the stack go together
(`Kept`): a slot is on the stack only once its thread has emptied it, so no job is stored over another. `WriteInv` says which result
`next()` may hand out while the worker computes the next one, and `ContextInv` and `GoneInv` where a context is
certain to be there or gone.

Constants that carry assumptions do so in operators (`LawfulUses`, `KeepsMode`, `QuietResults`, `HandlersApart`, `ConstantsFit`,
...) that the theorems name as hypotheses and the MC modules assume, or that `McpHttp`, `MaipAccounts`, `Network` and `Scheduling`
assume, which the MC modules extend: TLC evaluates each on the values of the runs. Each inductive invariant was also checked
by TLC on its run's instance.

Only model-checked, on the bounds above: all liveness (`CallsReturn`, `JobsServed`, `DestroyAttended`, and those of
the other runs), which with ENABLED is out of the prover's reach; the logit store of the KV cache; and what rests on
induction over data: lists, sets, maps, vectors, strings, packets and state files, where the value that a memory stands for is computed by
recursion over links, characters or bytes (`Represented`, which the event manager is a part of too, and
`TextsComeBack`).

## 5. What is not modelled

`PROJECT.json` lists every component with its status. Outside for good: vendored and example code,
the Python binding, records and getters, logging wrappers, the content of prompts, chat
templates and tensors. Sampling is the choice of any token. Further:

* *JSON* (`mbase/json/json.cpp`): a recursive parser of characters; what it does to a value is checked best against
  inputs, and no other part depends on more than that a message is understood.
* *Threads*: after a failed `pthread_create` the handle is what it was before, zero (`StartRunFails`); POSIX leaves it undefined.
* *Events*: `on_unregister` callbacks that call the manager from between the steps of a removal.
* *MCP*: pagination and completion (`mcp_server_base.cpp` 521 to 921), log levels and progress tokens, parsing of results;
  the client's stdio transport, which is a loop over lines.
* *Stream and diagnostics managers, configuration*: thin wrappers of file calls on one thread. `pc_io_manager.cpp` is commented out as a whole.
* *MAIP*: `maip_client`, a blocking wrapper around one socket; queries, which change nothing.
* *Inference support*: sampling sets, device and GGUF descriptions, chat templates.
* *Processor*: clearing the cache from the application's thread, a registration of the same processor twice, the embedder's
  registration with its model, which repeats that of the text processor.

What would add most next: the embedder on `LogicalProcessor` and `ProcessorLifecycle` by refinement rather than on
its own worker; an abstract byte stream that `NetPeer` and, above it, `MaipServer` implement, so that the two are composed rather
than side by side; an inductive invariant of the event manager, which needs no recursion; the JSON parser.

Hazards met in the survey beyond the ones in `PROJECT.json`:

* `logical_processing.h:74` releases a mutex it never acquired; `inf_t2t_processor.cpp:649` polls without bound;
  `:677` clears the cache from the caller's thread; `:378` checks a length that may be stale.
* `inf_t2t_model.cpp:745` never resets `mIsInitFailed`; `:1089` reads an
  erased node; `:514` locks the mutex the thread may hold in a processor's callback.
* `pc_net_manager.cpp:743` erases and then advances the iterator; `pc_state.cpp:178` loses a key with an empty value.
* `event_manager.h` destroys groups under their iterator.
