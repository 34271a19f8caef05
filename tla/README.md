# TLA+ models of the DSLX bytecode interpreter, the fuzzer sample generator and the NoC network graph

This directory holds TLA+ models of the code in `src/`, and the TLC configurations that check them:

- **The DSLX bytecode interpreter.** `BytecodeInterpreter::Interpret`, its value model and the `assert_eq` built-in. The implementation is not under `src/`. The models follow `spec.md` and the test suite `src/unnamed/part_001`.
- **The fuzzer's sample generator.** `src/unnamed/part_000` (`xls/fuzzer/sample_generator.cc`).
- **The network-on-chip simulation graph.** `src/xls/noc/simulation/network_graph.h`.

`PROJECT.json` lists every component, run, mutant, finding and hazard. Its `map` entry names the source lines each definition translates.

## Inventory

| Component | State | Operations | Modules |
|---|---|---|---|
| Value model | Unit, Bits (width, sign tag, payload), function references. Tuples and arrays are not used by the interpreter tests. | construct; structural equality; binary ops (add, sub, mul, div, and, or, xor, concat, shll, shrl); unary ops (invert, negate) | `BitsValue` |
| Instructions and environment | a program (sequence of op and operand); slots, unit-initialised | — | `BytecodeInterpreter`, `BytecodeEmitter` |
| Execution engine | pc, operand stack, environment, outcome | literal, store, load, binop, unop, call assert_eq, jump_rel_if, jump_rel, jump_dest; an internal error on a failed check; finishing at the end of the program | `BytecodeInterpreter`, abstract `InterpretContract` |
| Built-ins | — | `assert_eq` (pass pushes unit; mismatch fails with both values) | `BytecodeInterpreter` |
| Emitter (lowering) | — | literal, name, let, binop, unop, ternary, assert_eq | `BytecodeEmitter`, with the reference semantics in `DslxSemantics` |
| Assembly reader, rendering, Dump | — | parsing and printing text | not modelled |
| Sample generator (contract) | request options, phase, top entity, the sample | reject; abort on options; abort on a draw; produce a sample | `SampleContract`, over `SampleTypes` |
| Sample generator | request options, top entity, phase, types being filled, current argument list, batches, proc init values, codegen args | option checks; codegen-args check; codegen flag draw; GenerateArgument (unbiased, or mutate a prior); end of one argument list; function sample; proc init values; proc sample | `SampleGenerator` |
| AST generator, parser, type checker | — | generate and check a module | abstracted to the types of the top entity |
| Network graph | networks, then components, then ports, plus connections; every object stores its `id_`; each port has a `connection_` and each connection has `src_` and `sink_` | CreateNetwork, CreateNetworkComponent, CreatePort, CreateConnection (floating, or with src and sink), Attach, DetachSrc, DetachSink; the constructors; the by-index and by-id accessors at every level; GetNetworkIds, GetNetworkComponentIds, GetPortIds, GetOutputPortIds, GetInputPortIds, GetConnectionIds | `NetworkGraph`, abstract `NetworkLinks` |

How the parts interact:

- **Interpreter.** The emitter lowers a type-checked function to bytecode. The caller passes the bytecode and a unit-filled environment to `Interpret`, which returns one value or a failure. Execution is single-threaded and synchronous (spec §5). The hard behaviours are the control flow (relative jumps), the order of operand pops, wrap-around and width rules at the numeric edges, and how a failure is classified.
- **Sample generator.** It draws random arguments whose values depend on earlier arguments of the same call: a prior value is widened or sliced, then mutated. Every random draw is modelled as the set of its possible results. The behaviours hard to reach by testing are the draws that nearly never happen (a triangular draw of exactly 0.0) and widths at the edge (zero width).
- **Network graph.** Ports and connections refer to each other by id, in both directions. A long sequence of attaches and detaches must keep the two directions consistent.

## Modules

- **`BitsValue`.** Values, outcomes (Pending, Returned, AssertionFailure, InternalError) and the arithmetic of each opcode. `BinopChecksPass` holds the conditions whose failure is an internal error: non-Bits operands, unequal widths, division by zero, and signed MIN / -1, which spec §9 treats as an internal error.
- **`DslxSemantics`.** An independent reference semantics for the expression language. Addition is a ripple-carry adder over bit functions, signed division is a `CHOOSE`, and a RECURSIVE `Eval` evaluates left to right, the first failure aborting. It is not a translation of code: it is the definition the interpreter is checked against.
- **`BytecodeEmitter`.** `Emit(e)` lowers an expression to bytecode. A ternary becomes: cond, `jump_rel_if`, else-branch, `jump_rel`, `jump_dest`, then-branch, `jump_dest`. This is the layout of the repository's ternary tests.
- **`BytecodeInterpreter`.**
  - Variables: `job` (the program, the initial slots and the expected outcome), `pc`, `stack`, `env` and `outcome`.
  - Each opcode is an action guarded by `ChecksPass`. `FailCheck` ends the run with an internal error when a check fails. `Finish` returns the single value on the stack, or an internal error when the stack does not hold exactly one value.
  - `CallAssertEqFail` stops the run at once.
- **`InterpretContract`.** The abstract specification: `Interpret` returns the job's expected outcome, in one step, exactly once. `BytecodeInterpreter` refines it with the identity mapping on `job` and `outcome`. The pc, stack and environment are hidden.
- **`BytecodeInterpreterTests`.** The repository's interpreter tests as jobs, scaled to 8 bits. 32-bit values are out of reach of TLC's integers, so one byte of each repeated byte pattern is kept (0xa5a5a5a5 becomes 0xa5). This keeps every carry, borrow and shifted-out bit of the original test. `DestructuringLet` is left out because it needs tuples.
- **`SampleTypes`.** The DSLX concrete types and argument values, `OptionsConsistent` (the `XLS_CHECK`s at the start of `GenerateSample`), `InitValueTypes`, and what it means for a value to conform to a type. Both sample-generator modules extend it.
- **`SampleContract`.** What one call of `GenerateSample` promises, as one step from `"start"`:
  - an error status, only when the caller set codegen args;
  - an abort on inconsistent options;
  - an abort on a random draw, only when the top has an argument after a Bits-valued one with a Bits leaf whose width is not 1 (`DrawMayAbort`). Width 0 always aborts and width 2 or more aborts on a zero draw; a one-bit mutation takes the early return;
  - otherwise a sample: one argument list per call or tick of the top's types, payloads that fit, proc init values of the non-token `next` parameters, and codegen flags exactly when codegen is on.
- **`SampleGenerator`.**
  - `BiasedCounts`, `Flipped`, `Mutations`, `ArgChoices` and `MemberChoices` give the possible results of each RNG-driven function as sets.
  - A failed `XLS_CHECK` is `Abort` (the process dies). A failed `XLS_RET_CHECK` is `RetCheckError` (an error status).
  - The actions follow `GenerateSample` in order: option checks, then the codegen-args check, then the codegen flags and the top entity, then one `GenerateArgument` step per argument, then batches, and for a proc its init values.
  - `Contract == INSTANCE SampleContract WITH ...` maps the phases `"args"` and `"init"` to `"start"`, hides the top until the call ends, and maps the finished batches, init values and codegen flags to the sample.
- **`NetworkLinks`.** The abstract contract for links, seen from the ports. It is built from the header's comments on `Port::connection_`, `Attach` and `DetachSrc`/`DetachSink`.
  - State: the existing ports with their direction, the existing connections, and the connection each port holds.
  - `Attach` moves the port to the connection and takes the connection from its prior port of that direction. A detach dissociates the connection's own ports only.
  - Networks and components are hidden.
- **`NetworkGraph`.** One variable, `nets`, holding the vectors of the manager. Every object stores the id it was created with. The by-index accessors build ids as the header does: a port id from the component's stored `id_` and the index, a component id from the network's. Lookups by id go through the levels as the header's classes do. `NetworkManager::GetPort` resolves the network, then `Network::GetPort`, then the component, then `NetworkComponent::GetPort`.
  - The constructors (`NewNetwork`, `NewNetworkComponent`, `NewPort`, `NewConnection`) give the initial field values. A port's `connection_` and a connection's `src_` and `sink_` start invalid.
  - Each `NetworkManager` call is an action on ids: `CreateNetworkComponent(network, kind)`, `CreatePort(component, dir)`, both `CreateConnection`s, and `Attach(conn, port)`. It carries the model's bound as a guard and applies the network- or component-level body (`NetworkCreateNetworkComponent`, `ComponentCreatePort`, `NetworkCreateConnection`, `NetworkCreateConnectionBetween`).
  - `Attach` and `CreateConnection` take ports of any network, because the header restricts neither.
  - `GetOutputPortIds` and `GetInputPortIds` filter `GetPortIds` by direction.
  - `PortRecord`, `ConnectionRecord`, `NetworkComponentRecord` and `NetworkRecord` are the classes' data members, without the `mgr_` pointers. `TypeOK` checks the vectors against them.
  - The bodies of `Attach`, `DetachSrc` and `DetachSink` live in `network_graph.cc`, which is not in `src/`. Their actions follow the contracts in the header comments. `Attach` detaches the connection's prior port at that end, then links both ways.
  - `CreateConnection(src, sink)` creates a connection and attaches each valid end.
  - A new object gets the id its index has. The `Create*` bodies are in `network_graph.cc`.
- **MC modules.** `MCBytecodeInterpreter`, `MCSampleGenerator` and `MCNetworkGraph` instantiate the models for TLC.

## Runs

| Run | Config | Expect | Checks |
|---|---|---|---|
| interp_contract | `MCBytecodeInterpreter.cfg` | pass | `TypeOK`, `ImplementsContract` |
| sample_gen | `MCSampleGenerator.cfg` | pass | `ImplementsSampleContract` |
| sample_zero_width | `MCSampleZeroWidthTops.cfg` | violation | `NoAbortOnConsistentOptions` |
| sample_zero_draw | `MCSampleTwoBitTops.cfg` | violation | `NoAbortOnConsistentOptions` |
| network_graph | `MCNetworkGraph.cfg` | pass | `TypeOK`, `IdsResolve`, `PortLinkSound` |
| network_two | `MCNetworkTwo.cfg` | pass | `IdsResolve`, `PortLinkSound` |
| network_connids | `MCNetworkConnIds.cfg` | violation | `ConnectionIdsComplete` |
| network_links | `MCNetworkLinks.cfg` | violation | `ImplementsNetworkLinks` |

### interp_contract

Checks `ImplementsContract` on about 1500 jobs:

- the 14 repository tests;
- every binary and unary op on every pair of 1- and 2-bit literals, signed and unsigned, which covers wrap-around, shifts by at least the width, division by zero, MIN / -1, width mismatches and concat;
- nested lets over one or two slots, with assertions that pass, fail on the value, fail on the sign tag alone, or fail on the width alone;
- ternaries, nested ones included, whose condition is a literal, a slot, a computed bit, or a 2-bit value (an internal error);
- seven malformed programs: empty, stack underflow, two values left, a jump past the end, a backward jump out of range, a slot out of range, and a condition wider than one bit.

For every job, the run shows that Interpret always terminates and returns exactly the reference meaning. Jumps, pop order and failure classification are all exercised. 8109 distinct states, about a minute.

### sample_gen

Bounds:

- requests: every combination of proc/function, 0 or 2 calls, proc ticks unset, 0 or 2, and codegen on or off, with or without caller codegen args;
- three function tops:
  - one whose widths go 2 → 1 → 2 with a sign change;
  - a one-bit parameter followed by a tuple of one one-bit member: the member's prior is the outer Bits argument, so it may be a mutation, whose one-bit draw must not abort;
  - a tuple of a u1 and a u2 followed by an array: the tuple comes first, so its members have no prior and cannot abort, even though the u2 follows the u1 inside the tuple;
- a proc with channel members and a `next` holding a token, a u1 and an s2, so the init values are two of different types, in order, the second possibly a mutation of the first.

`ImplementsSampleContract` checks that every step of the generator is a step of `SampleContract` under the mapping. Among its mutants, members generated with the earlier members added to their prior abort where the contract forbids it, and init value types collected in reverse order give init values that do not match the `next` parameters. Termination is not checked: every loop of `GenerateSample` runs to a bound fixed before it starts, so it cannot fail to end. 280,432 distinct states, about 10 s.

### sample_zero_width and sample_zero_draw

Both violated. The first shows a zero-width parameter aborting the process through `RandRangeBiasedTowardsZero(0)`. The second shows the abort on a triangular draw of exactly 0.0. That draw is possible but rare, about once in 2^53 draws.

### network_graph

One network, two components, two ports each, two connections. That is enough for two connections to contend for one port, and for a connection to be created with both ends on the same port. The run shows two things:

- every id a by-index accessor builds (network, component, port, connection) is the stored id of the object the matching by-index object accessor returns, and the by-id lookup (manager, then network, then component) reaches that same object;
- every attached port is the end of its connection that its direction selects: each id of `GetOutputPortIds` is its connection's `src`, each of `GetInputPortIds` its `sink`.

7038 distinct states.

### network_two

Two networks, two components each, one port per component, one connection per network. Every id of network 1 has a non-zero network part. `Attach` and `CreateConnection` accept ports of either network, so a connection of one network can be attached to a port of the other, and the two connections can contend for one port. The run checks `IdsResolve` and `PortLinkSound`, as `network_graph` does. Two of its mutants are caught only here: a component id built without the network's id, and a detach that looks the old port up in the connection's network. 13,471 distinct states. Two networks with two connections each are out of reach (the run does not end in 5 minutes).

### network_connids

Violated. `GetConnectionIds` is sized by `components_`.

### network_links

Violated. `ImplementsNetworkLinks` checks the graph against `NetworkLinks` (the header's link contract) through `Links == INSTANCE NetworkLinks WITH ...`. TLC's trace:

The bounds are one network, one component, two ports and two connections.

1. `CreateConnection` makes c0 with output port p0 as its src.
2. A second `CreateConnection` makes c1 with src p0. Now p0 holds c1, but c0 still names p0.
3. `Attach(c0, p1)` detaches p0 as c0's prior src. That clears p0's link to c1, a link the call was never asked to touch.

The root cause is that attaching a port held by another connection leaves that connection's end naming the port.

A detach cannot show this. Refinement compares states, and a `DetachSrc(c0)` that clears p0 leaves the same state as the contract's `Unlink(c1, "src")`. An `Attach` can show it, because it clears one port while linking another. With one port (`MaxPorts = 1`, 27 states) or one connection (`MaxConnections = 1`, 29 states) there is no such `Attach`, and the graph refines the contract.

### Mutants

Each property of a passing run is broken by a plausible code mutant, listed in `PROJECT.json`:

- a missing wrap in `add`;
- an inverted `jump_rel_if`;
- a flipped bit one past the width;
- tuple members that take the earlier members into their prior;
- init value types collected in reverse order;
- `RandRangeBiasedTowardsZero` without its early return for a limit of 1;
- a port created with a stale connection id;
- a component id taken after the push;
- a component id built without the network's id;
- a detach that resolves the old port in the connection's network;
- an `Attach` that leaves the old port linked.

## Fairness

The interpreter's loop runs on one thread and never waits (spec §5), so `Spec` assumes weak fairness of `Next`. That is what makes `InterpretContract`'s `WF(Return)`, and so termination, checkable.

`GenerateSample` assumes no fairness and is checked for safety only. Its loops are bounded before they start, so termination is not a question. Its runs stop in a final phase, so deadlock checking is off there.

The network graph is an API with no obligation to make progress, so it is checked for safety only. Deadlock is checked: some action is always enabled until the bounds are reached.

## Not modelled, and why

- **Textual assembly reader, rendering and Dump.** They parse and format text, and no property depends on them.
- **Tuples, arrays and `DestructuringLet`.** The interpreter code for them is not in the excerpt, and the only test that uses them needs a tuple-destructuring emitter.
- **User-function calls and the other built-ins.** They are not in `src/` and appear in no test.
- **The AST generator, parser and type checker.** They are abstracted to the types of the top entity.
- **The bodies in `network_graph.cc`.** They are modelled from the header's contracts.
- **References and spans into the graph's vectors.** `GetNetworkByIndex`, `GetPorts` and the like can be invalidated by a later `Create*`, but the code that holds them is not under `src/`. The model holds values.
- **`Dump`.** It only prints.
- **`mgr_`.** Every model has one manager, so the manager pointer in `Network` and `Connection` is not state.
- **Proc IR channel names.** `GetProcIRChannelNames` only formats strings.

## Plan for later work

1. **User-function `call` with a fresh frame per activation.** Model a frame stack, and check that a failure unwinds every frame (spec §4.2, §5).
2. **More built-ins.** Add indexing, with the `IndexOutOfBounds` user-level failure, once their code is available.
3. **The assembly reader.** Model it from the spec (spec_modelled), as a parser checked against `Emit`'s output.
4. **A copied `NetworkManager`.** `Network` and `Connection` keep the manager's address (`mgr_`). Model a copy once the `.cc` shows how `Attach` uses it.
