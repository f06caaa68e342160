# A TLA+ verification of blud

blud is a build tool in the tradition of make: a C program around LuaJIT that
compiles a *bludfile* to Lua, evaluates it, and then brings targets up to date.
This directory holds TLA+ models of it, the TLC configurations that check them
on small instances, and proofs checked by TLAPS. Paths below are relative to
the repository's root.

## The system

One invocation is one process with one thread. It goes through these parts in
this order:

| Part | Code | State it keeps | Operations |
| --- | --- | --- | --- |
| command line | `main.lua` | options (`-B`, `-n`, `-W`, `--why`, names) | `parse_command_line` |
| bytecode cache | `blud.lua`, `main.lua` | `bludfile.luac` on disk | decide, compile, write, load |
| line reader, compiler | `compile_io.lua`, `compiler.lua` | stack of inputs, source map | `get_structural_line`, `emit_line`, directives |
| macros and scopes | `macro.lua`, `scope.lua` | chain of scopes, the shared build scope | assign, expand, `get_text`, `get_boolean` |
| rule declarations | `operator.lua`, `runtime.lua`, `atom.lua` | atoms, `atom.RULE`, default target and build | `EVAL_RULE`, `ADD_RULES`, `ADD_RULE`, per operator `:` `::` `%:` `:BUILD:` `:TEST:` |
| implicit rules | `implicit.lua` | ordered list of pattern rules | `find_forward`, `find_reverse`, `add_rule` |
| command-line roots | `runtime.lua` | `blud.roots` | `infer_targets`, `build_targets` |
| update traversal | `atom.lua`, `operator.lua`, `runtime.lua` | `BUILDING`, `BOUND_NAME`, `TIMESTAMP` of each atom, active build context | `BUILD`, `BIND`, `get_timestamp`, `BUILD_PREREQUISITES`, `DO_ACTION` |
| directory cache | `dircache.lua`, `blud.c`, `os_get_dir` | one snapshot per directory, the newest time below it | `get_cached_dir`, `get_timestamp`, `expand_pattern` |
| patterns | `glob_expand` of `blud.c` | two pointers and a place to go back to | `pattern_match` |
| test suites | `operator.lua` | a workspace and a pass marker per test | stage, compare, run, mark |
| working directory | `aliasdir.lua`, `shell.lua`, `os_getcwd`, `os_setcwd` | logical directory and its stack, the process's own | `cd`, `push_cwd`, `pop_cwd`, `to_absolute`, `to_relative` |
| file copy | `oslinux.c`, `oswindows.c` | files, permissions, the open directories of a recursion | `os_copy_file`, `os_copy_dir`, `cp` |
| file commands | `shell.lua` and both back ends | files and their times | `rm`, `mkdir`, `touch`, `test` |
| dates | `oslinux.c`, `oswindows.c`, `blud.c` | none | `os_fields_to_timestamp`, `os_timestamp_to_fields` |
| exits and explanations | `error.lua`, `why.lua` | expected exit, decision records | `BLUD_EXIT`, `BLUD_ASSERT_EXIT`, `report` |

The parts call each other directly; nothing runs concurrently within a process.
What is hard about blud is therefore not locking but *memory against disk*. The
directory cache is never refreshed, a timestamp is read before the prerequisites
of its target are built and is kept in a local variable, the result of a build
is remembered as "newest", an atom stays bound where it was bound first, and
flags such as `BUILDING` must be in step with the recursion although there are
several ways out of it. Between invocations all memory is lost and the disk
stays, with what a failed or killed action wrote and what the user edited. While
blud runs, its actions and other programs change the same directories that it
lists, copies and removes, links lead out of a tree or back into it, any system
call may fail, and two back ends have to behave alike.

What makes each part correct:

- *update traversal*: it ends; an action runs at most once, after the actions
  of everything its target depends on; the circular-dependency error is raised
  for cycles only; after a success nothing is older than what it was made from,
  and doing it again does nothing.
- *roots and contexts*: a target is made in the directory of the context it is
  named after on the command line.
- *directory cache*: what nobody touched is seen as it is, however the tree is
  changed around it; nothing is dated later than now; every question is answered.
- *patterns*: a pattern gives the names it means, and the search for them ends.
- *file copy*: success means complete; failure leaves no half file and takes away
  nothing that was there; a copy touches its destination only, and ends unless it
  waits for a pipe.
- *file commands*: success means done, failure has a cause, and nothing but what
  the operand names is touched.
- *rule declarations*: a rule belongs to the targets it was declared for, and
  declarations accumulate; they affect each other only where rules share a list.
- *test suites*: a pass marker stands for a passed run of the staged source.
- *bytecode cache*: the code that runs is that of the current bludfile.
- *directories*: the logical directory, the process's directory and the stack
  agree; every way out of a test's action restores them.
- *line reader*: every generated line maps back to the line it came from.

## Modules

| Module | What it is |
| --- | --- |
| `Update` | the update traversal as a state machine |
| `BuildOrder` | what an update promises, without how |
| `Targets` | `infer_targets` and the default build context, as operators |
| `UpdateInv` | the inductive invariant, in named parts |
| `UpdateProofs` | the theorems about `Update` and their proofs |
| `MCUpdate` | projects and command lines for TLC |
| `TestRun` | a test of a suite: staged, run, marked |
| `TestRunProofs` | the theorems about `TestRun` |
| `MCTestRun` | suites and command lines for TLC |
| `LuacCache` | the compiled bludfile: reused or written |
| `RuleDecl` | what the declarations of a bludfile leave behind |
| `RuleDeclProofs` | the theorems about `RuleDecl` |
| `MCRuleDecl` | declarations and command lines for TLC |
| `Scopes` | variables of targets and build contexts |
| `BludfileProofs` | the theorems about `LuacCache` and `Scopes` |
| `MCScopes` | variables and assignments for TLC |
| `FileTree` | the tree of files, directories and links that system calls see (external) |
| `CopyTree` | copying a file or a tree, on Linux and on Windows |
| `CopyTreeProofs` | the theorems about `CopyTree`, and the laws of walks along paths |
| `MCCopyTree` | trees and copies for TLC |
| `Timestamp` | dates, local time and seconds, on both back ends, as operators |
| `FileCommands` | `rm`, `mkdir`, `touch`, `test` beside `cp`, while others change the tree |
| `FileProofs` | the theorems about `FileCommands`, copies among the other commands included |
| `MCFileCommands` | commands for TLC |
| `DirCache` | the directory cache, timestamps of trees and patterns with `**`, while others change the tree |
| `DirCacheProofs` | the theorems about `DirCache` |
| `MCDirCache` | trees and questions for TLC |
| `Glob` | which names one component of a pattern matches, byte by byte |
| `MCGlob` | patterns and names for TLC |
| `WorkingDir` | the logical directory beside that of the process |
| `WorkingDirProofs` | the theorem about `WorkingDir` |
| `MCWorkingDir` | a tree with links and the paths that are written in it |

`Update` uses `Targets` for its roots and is shown to implement `BuildOrder`.
`RuleDecl` uses them too: the context that rules expand in is compared with the one
their targets are built in. The rules of `Update` and the suites
of `TestRun` are constants there, of the kinds that `RuleDecl` reaches.
`FileTree` is the ground of `CopyTree`, `DirCache` and `WorkingDir`; `FileCommands`
is `CopyTree` with the other commands beside it, over the same files, and with
`Timestamp` for the dates of `touch -t`. `DirCache` takes the component of a pattern
for the set of names that it matches, which is what `Glob` computes, and absolute
paths, which is what `to_absolute` of `WorkingDir` gives; `Update` uses its
snapshots in a flat form.
`TestRun` and `LuacCache` share only files with the traversal. A suite
reaches `TestRun` through `Operator:BUILD`, which builds its tests one after the
other, and the order-only prerequisites of a test are an update of its own,
which `TestRun` takes for a step that succeeds, exits or raises an error, and
that may leave blud in another directory: their actions are ordinary ones, whose
`cd` lasts (shell.lua 645-647).

### `Update`

The Lua code is a recursion. `Update` has the recursion as an explicit stack of
frames, so that each point between two calls is a state: the prerequisite that
comes next, the decision, the action itself.

| Code | Model |
| --- | --- |
| `atom.RULE` | `rule` |
| `atom.BOUND_NAME` | `BOUND_NAME`: the directory only, the name is the atom |
| `atom.TIMESTAMP`, `atom.BUILDING` | `TIMESTAMP`, `BUILDING` |
| `directory_cache` | `dircache`: `Nil` or the times of a whole directory when it was read |
| `blud.build_atom`, the derived `OWD` | `context` |
| the active calls of `Colon:BUILD`, their `timestamp`, `newest_time` and loop index | `stack` |
| what a call returns | `ret`, `needs` |
| the file system | `disk`, `clock` |

`Init` and `Invoke` start a process; `NextRoot`, `RootReturns`, `AllRootsBuilt`
are the loop of `build_targets`; `InventRule` and `NoRuleFound` are the search
for a pattern rule; `SourceExists`, `SourceMissing`, `Circular`, `BeginBuild`,
`ActivateBuild` are the ways into a `BUILD`; `NextPrerequisite`,
`PrerequisiteReturns`, `BuildContextAsPrerequisite` are `BUILD_PREREQUISITES`;
`NothingToRun`, `StartAction`, `ActionSucceeds`, `ActionFails` are the decision
and the end of a `BUILD`. `Kill` ends the process anywhere and `Edit` changes a
file between two invocations; both are external. An action's effect is a set of
files in the directory of its target (`project.outputs`): all of them when it
succeeds, any subset when it fails or is killed. Two writes may get the same
time, since the clock of a file system is coarse.

`Operator:BUILD` (operator.lua 127-181) and `Colon:BUILD` (361-410) are the
same decision, and the model is of both.

Left out of `Update`, with the reason: a directory as a target (its time is the
newest of everything below it, dircache.lua 210-235); pattern rules and
prerequisites in other directories than the current one (`BIND` sends sources
there only when `SWD` is set); `-W` with the name of a build context (the name
shares its scope with all targets, so that every atom would be new); the
context before the first root is built, which no atom is bound in, because the
first root is a context whenever one is declared; output, tracing and `--why`.

### `BuildOrder`

An atom settles once, after everything it depends on; its action runs as it
settles or not at all; only `-B` runs actions of settled atoms again; rules may
be found late (pattern rules), but not for an atom that settled. `Update`
implements it under the mapping `deps` to the prerequisites of the rule, `done`
to `settled`, `runs` to `ran`.

### `TestRun`

`BUILD` of `:BLUDTEST:` (operator.lua 765-860) with every function it calls. A
step of the model is what one system call or one call of the action decides, so
that a kill, an error or an edit of the source can come between any two:

| Code | Model |
| --- | --- |
| `scompare`, `compare_directory`, `files_equal` | `Compare`, `SourceGone` |
| `testupdate`: `ensure_directory`, `update_file`, `update_directory` | `EnsureDirectory`, `UpdateFile`, `UpdateFails`, `UpdateReservedKey`, `Updated` |
| `mustrun` and the marker | `Decide`, `RemoveMarker`, `WriteMarker` |
| `execute_test_action`, `AliasDir.push_cwd`, `pop_cwd` | `EnterWorkspace`, `RunAction`, `PrintAction`, `LeaveWorkspace` |
| the loop of `Operator:BUILD` over a suite's tests | `NextTest`, `Return`, `AllTested` |
| the update of a test's order-only prerequisites | `BuildOrderOnly` |

A source is one file, or a directory with one level of files and the reserved key
of its cached entries. `os_path_type` keeps its four answers, since the code
compares with them. A file in a workspace has a content or is torn: a copy was
cut short, or an action wrote over it. An action may change the working directory
and may pass, fail, or raise a Lua error. `verdict`, `ran_on` and `moved` are
history: how the last action in a workspace ended, what it started with, and
whether a source was edited in this invocation.

Names of sources, workspaces and markers are relative, and nothing resolves them
before they are used. So after a `cd` of an order-only prerequisite's action the
same names are other files. A `Site` is a test together with the place its names
are resolved from; source, workspace, staged files and marker belong to a site, and
`tested_in` (history) is the place of each test that was begun. `Home` is where the
update of the suite starts. In a workspace, `here` is the place that the stack
leads back to.

Left out: a `cd` that leaves some of a test's names where they were (its derived
`SWD` and `OWD` may be relative or not); subdirectories of a source, which repeat the
same steps one level deeper; a marker or a staged file that an action replaced by a
link. How a suite is declared is in `RuleDecl`; its result is the constant `Suites`
here.

### `LuacCache`

The main program of `blud.lua` from the three timestamps (67-83) to the call of
the function (223-228), and `load_bytecode`. A version counts the changes of the
program, the bludfile and the files it includes; bytecode carries the versions it
was compiled from. Opening the cache empties it, the write may be incomplete
without anyone asking, and the clock may stand still between any two changes.
`compiled` is `compiled_function ~= nil`. One process runs at a time. Left out:
`builtin.blud`, which is part of the program; a bludfile that is missing or has
the suffix `.blud`, whose cache never counts as current.

### `RuleDecl`

`eval_rule` of `runtime.lua`, `EVAL_RULE`, `ADD_RULES` and `ADD_RULE` of
`Operator`, and what `:BUILD:` and `:TEST:` do instead. `EvalRule` takes a
declaration and what its words expand to in the context that is active by then;
every target of it is a step (`NewRule`, `AddToRule`, `AddSuite`), every test of
a suite too (`AddTest`), and `RuleAdded` ends the declaration, which for
`:BUILD:` selects the active context anew.

| Code | Model |
| --- | --- |
| `atom.RULE` | `rule` |
| the tables of prerequisite words, which rules hold by reference | `lists`, and `prereq_words` of a rule is an index of it |
| `atom.BOUND_NAME` of builds and tests | `BOUND_NAME`: who bound it |
| `blud.default_target`, `blud.default_build`, `blud.build_atom` | the same |
| the loops of `ADD_RULES` and of `ADD_RULE` of `:TEST:` | `next`, `test` |

`declared` and `alone` are history: what was declared for each target, and which
targets have a list that a declaration of them alone has made. A loop that appends a table to itself does not end; the
model goes to `"endless"`. Every error ends the process. Left out: the directory
of a declaration, order-only prerequisites, `%:` (it goes to the list of implicit
rules), equal basenames of different tests, and the check of
`USED_AS_PREREQUISITE`, which nothing sets.

### `Scopes`

Assignment and lookup of variables: `macro_assign_parts`, the `assign` and
`expand` of a macro made of parts, and `activate_build`, which makes the table of a
build that of `Scope.build`, where every target looks after its own.

| Code | Model |
| --- | --- |
| `scope.variables` of the bludfile and of targets | `variables` |
| `Scope.build.variables`, an alias of the active build's table | `build_atom`, the second place of `Chain` |
| a name such as `F   1`, which saves the old value of `F = $(F) ...` | `<<F, 1>>` |
| `saved_value_count` | the same |
| `error("die")` of `expand_call` | `Die` |

Parts stay unexpanded in `variables`, as they do in the code; `${NAME}` is expanded
when it is assigned, in the bludfile's scope, whatever the scope it is assigned in.
`assigned` and `switched` are history: who was assigned which words, and whether a
second build was activated. Left out: positional arguments, `OWD` and other
functions as macros, `$@` `$<` `$^`, booleans, the spaces between words, and
assignments on the command line, which are parsed and printed only (main.lua 144).

### `FileTree`

A function from the paths that exist to nodes: a directory with permissions, a file
with permissions and a content (`Torn` when it was not completely written), a link
(on Windows made for a directory or for a file, whatever it leads to), a pipe, or
something else such as a socket. `Walk` is the kernel's way along a path, through
links, with its limits on links and on length; `NewPlace` is where an entry could
be made. Hard links are left out.

### `CopyTree`

`os_copy_file` and `os_copy_dir` with everything they call, and `cp` with and
without `-r`. The recursion of `copy_dir_exact` (`copy_directory_tree` on Windows)
is a stack of frames, and a step is what lies between two system calls whose
outcome matters.

| Code | Model |
| --- | --- |
| `copy_destination`, `same_or_child_path`, `realpath` of what does not exist | `Destination`, `Separate`, `Canonical` |
| the choice between a file and a tree | `CopyDir`, `CopyFile`, `RefuseCopy` |
| `opendir`, `mkdir`, `chmod 0700` | `EnterExisting`, `EnterNew`, `EnterNewFails`, `EnterFails` |
| `dir_exists` of a directory link that leads nowhere | `EnterNowhere` |
| the loop over the entries | `ReadDirectory`, `ReadFile`, `ReadOther`, `ReadUnreachable`, `ReadFails`, `EndOfDirectory` |
| `copy_file_exact`, `CopyFileW` | `OpenOver`, `OpenNew`, `OpenFails`, `Written`, `WriteFails` |
| `open` of a pipe, which waits for a writer | `OpenPipe` |
| `closedir`, the last `chmod`, `rmdir` of what was made for nothing | `CloseDirectory`, `CloseFails` |
| `result` of an activation | `result` of a frame |

The back ends differ where the code does: Linux follows the links below a source,
gives new directories the permissions of their source, and makes the destination
after it has opened the source; Windows refuses links and compares paths by their
text. `missed` is history: the result of an earlier child stood for an error.

Of the permissions it matters whether the owner may write. `req.masked` is a umask
that denies it: on Linux `open` and `mkdir` then make what is read-only (`Masked`),
until the last `chmod` of a directory. `CopyFileW` gives the file that it makes or
writes over the attributes of its source, read-only included, at some time before it
returns.

### `FileCommands` and `Timestamp`

`rm`, `mkdir`, `touch` and the predicates of `test`, one operand each, beside the
copies of `CopyTree`; after any step another process may create or remove an entry.

| Code | Model |
| --- | --- |
| `remove_path`: `os_path_type`, `os_remove_file`, the listing, `os_remove_dir` | `Look`, `LookMissing`, `Unlink`, `List`, `NextEntry`, `EndOfEntries`, `Rmdir` and their failures |
| `os_mkdir` and what it asks after `EEXIST`; every prefix with `-p` | `Mkdir`, `MkdirCollides`, `MkdirExists`, `MkdirFails` |
| `os_touch` on Linux: set the time, create, set it again | `Stamp`, `StampMissing`, `Create`, `StampFails`, `CreateFails` |
| `os_touch` on Windows: attributes, open, set the time | `Attributes`, `OpenAlways`, `OpenExisting` and its failure |
| the predicates | `Predicate`, `Test` |

`Timestamp` has the calendar, local time with skipped and repeated hours, the ranges
of `blud.timestamp`, what `mktime` and `SystemTimeToFileTime` accept, and the years
that the digits of `touch -t` stand for. `missing`, `stamped` and `theirs` are
history. A new file may stay when `close` or `SetFileTime` fails after it was made
(`CreateFails`). Left out: several operands, which follow each other; times of access.

### `DirCache`

A question is one call of `get_timestamp` or `expand_pattern`. The walks of
`dircache.lua` (`get_entry_timestamp`, `recursive_glob_match`) are a stack of directories,
each with what is still to be looked at; `want` is the argument of the call that is
about to be made.

| Code | Model |
| --- | --- |
| `directory_cache`, `virtual_timestamp` | `cache`, `virtual` |
| `get_dir_cache`: `opendir`, one `readdir` and `fstatat` per entry, `closedir` | `Open`, `Read`, `ReadGone`, `EndOfList` and their failures |
| the callback, the check against the start of the build and the clock | `Callback`, `InFuture` |
| the loops over a directory's entries | `Enter`, `Compare`, `Collect`, `Descend`, `Finish` |
| `luaL_error` and the `pcall` around it | `Fail` |

Others create, touch and remove files between any two entries that are read. While
blud looks only at its own tables they change nothing that it sees before the next
listing, and the model has them wait for it. A name that came or went during a
listing may be in it or not. On Windows an entry is what it was at some time.
`log`, `disturbed` and `unlinked` are history: every time that a file has had, and
what others did.

### `Glob`

`pattern_match` and the loop around it, over the string of names, each with a NUL
behind it, that `get_dir_cache` made. `pat`, `input`, `backPat` and `backInput` are
the four pointers of the code. What lies behind the string is unknown (`Beyond`).

### `WorkingDir`

`aliasdir.lua` keeps the logical directory by the text of paths, the kernel keeps
the directory of the process; `cd`, and the workspaces that tests enter and leave,
change both.

| Code | Model |
| --- | --- |
| `os_getcwd` with its growing buffer | `GrowBuffer`, `Getcwd`, `GetcwdFails` |
| `append_normalized_components`, `to_absolute`, `to_relative` | the same |
| `set_cwd` over `os_setcwd` | `set_cwd`, `Refused` |
| `cd`, `cd -`, `cd` alone | `Cd`, `CdFails` |
| `push_cwd`, `pop_cwd` around a test's action | `EnterTest`, `LeaveTest` and their failures |

Commands and other processes remove and replace directories and links meanwhile
(`Unlink`, `Replace`). `changed` is history. Left out: drives, shares and letter case
of Windows.

## What is checked

| Run | Instance | States |
| --- | --- | --- |
| `update_graphs` | every rule graph over three atoms (lists of up to two prerequisites in both orders, cycles, missing files, rules with and without action) with every assignment of times 0..2 to the files; two invocations; no kills or edits | 640 000 |
| `update_sessions` | five projects over six atoms and three directories; two invocations with `-B`, `-n`, `-W c` or none of them; failures, kills, an edit | 190 000 |
| `test_run` | two tests in four suites (files, a file in the way of a workspace, a directory, order-only prerequisites that may `cd` to where the same names are other files), named in both orders or twice; two invocations with `-B`, `-n` or neither; failures, kills, an edit | 2 700 000 |
| `unchanged_test` | one suite of two tests that are files | violation |
| `luac_cache` | three invocations, two changes of the bludfile, an included file or the program, times up to 8 | 670 000 |
| `rule_decl` | bludfiles of up to three declarations out of 40, over two build names, two targets and two sources, with five command lines | 319 000 |
| `scopes` | two builds and the bludfile, two variables, two assignments of four kinds of right sides, any activations | 12 000 |
| `files` | four kinds of copy over nine sources, twelve destinations and six pairs of operands; `rm` and `test` with every option, `mkdir`, `touch` with and without dates, over trees with each kind of entry in them; both back ends; one system call fails anywhere, and beside a command other than a copy one entry is created or removed by others; `rm` of trees whose links lead to what it removes earlier; copies in which two names are one; pipes, a umask, and links on Windows to directories that are gone | 108 000 |
| `copy_complete` | one directory with two files and a link to nowhere | violation |
| `directories` | two questions out of three (the times of a directory and of a file, a pattern with `**`) on four trees, both back ends; two disturbances (files touched, created, removed, calls that fail), a clock that ticks | 483 000 |
| `glob` | every pattern of up to four bytes out of `a b * ?` and eight classes with something before and behind, on listings of no, one and two names | 216 000 |
| `working_directory` | any sequence of `cd`, `cd -` and tests over twelve paths in a tree with two links, every failure, one removal or replacement, both back ends | 109 000 |

Three atoms are the smallest number with a diamond whose shared part is reached
over paths of different length, a cycle entered from outside, and a prerequisite
that another prerequisite rebuilds. Times 0 (missing), 1 and 2 give every order
of two files and equality. Two invocations are what a property about doing the
same again needs. `Newest` bounds the clock; it is above what these sessions can
reach, so no write is ever prevented.

In `test_run` two tests are needed to see one that is left in the wrong
directory, and two invocations to see what the first leaves behind; two places,
for names that mean one thing before a `cd` and another after it; one edit
suffices because contents matter only as equal or not. `luac_cache` needs a write,
a change and a reuse, and one more of each for a cache that is replaced; with
times up to 8 every change and write can have a time of its own (two at the start,
two changes, and two for each cache that is written) or share it with another.

In `files` a source with two entries, one of them of each kind, is what it takes for
one child to go well and the next to fail; a second level below it shows what is
handed up. `MaxLinks = 2` and `MaxPath = 5` let a link be followed into a link, and
a copy go into itself until the kernel stops it. One failing call and one change by
others reach every way out of a function; two of them at once take the same ways
one after the other. The dates are the ends of months and ranges, leap days of a
century and around it, both hours of the clock changes of one zone, the years
where two digits change their century, and the last second of 1969.

In `directories` two questions are needed for an answer from the cache after one
that filled it; two disturbances, for a file that is removed and one that is touched
during the same listing; a nested directory, for listings of different ages.
`MaxPath = 4` lets a link that leads back up be followed until the path is too long.
The clock has one tick, from the start of the build (1) to 2, and a file may be
given a time ahead of it.

In `glob` four bytes are a star, something behind it, and something behind that
which fails: the shortest pattern in which going back matters twice. Two names show
what a matcher reads that runs past the end of the first.


Three declarations, `MaxDeclarations` in `rule_decl`, are one that makes two
rules share a list, one that closes one of them, one that adds to the other; or a
suite, one that overlaps with it, and one that replaces the action of its tests.

The properties of `Update`:

- `CircularOnCycle`: when `BUILDING` is found set, the stack holds a chain of
  prerequisites from the target back to itself.
- `AtMostOnce`, `OrderRespected`: without `-B` an action runs at most once, and
  never after that of a target that depends on it. The code has no note "already
  built"; both rest on remembered timestamps.
- `FreshOnSuccess`: after a plain invocation succeeded, no file that an action
  makes is older than its direct prerequisites.
- `QuietRebuild`: after that the same invocation runs nothing, and when nothing
  ran, targets with actions are reported up to date. It needs that
  actions make their targets and nothing else, and that pattern rules start from
  files that no action makes, by a rule of their own or by another pattern. `SideProduct` in `MCUpdate` shows a project where it does not hold.
- `Terminates`: an invocation ends.
- `ImplementsBuildOrder`.

Of `TestRun`:

- `MarkerEarned`: a pass marker stands for the last action in that workspace,
  and that action passed. The marker is removed before the action and written
  after it, with several ways out in between.
- `SuiteTested`: when a suite succeeded and no source was edited meanwhile, every
  test of it passed on exactly its source, although a workspace may hold a
  truncated copy or what an earlier action wrote. Its source is what its name
  stands for where its order-only prerequisites have left blud.
- `HomeAgain`: the `cd` of a test's action does not last, however the action ends,
  and the `cd` of an order-only prerequisite's does. Outside an action blud is where
  the last of these has left it, or where it was started, so that a test means the
  same source, workspace and marker from its comparison to its marker.
- `PrintOnly`: `-n` changes nothing in a workspace.

Of `LuacCache`:

- `RunsCurrent`: the code that runs is that of the bludfile as it was when the
  process started, or newer, compiled by the installed program. There are two
  exceptions, both in the property: included files are compared with nothing when
  the cache is reused, and a file that changed *while* it was compiled
  (`luac.raced`) leaves a cache newer than the text it came from.

Of `RuleDecl`:

- `ListsAccount`: no prerequisite that was declared for a target is lost, and a rule
  whose list was made by a declaration of its target alone has no others, whichever
  lists the other targets share. Of rules whose list was shared from the start it says
  the first half only; what the code does with these is among the disagreements below.
- `SuiteOwnsTests`: a test is in the list of one suite, once, bound to it and with
  an action, however patterns overlap; the list holds nothing else.
- `RulesStay`: operator, list and suite of a rule stay, and so does an action
  unless a later declaration of its suite gives a test another one.
- `EndlessOnRepeat`: a declaration whose evaluation does not end names one target
  twice.
- `ExpandedWhereBuilt`: declarations expand in the context that the targets on the
  command line are built in, if a context is named at most as the first of them.
  `select_declared_build` and `infer_targets` decide this independently; for `blud
  prog release` they differ, and no document says which is meant.

Of `Scopes`:

- `SelfReference`: `F = ... $(F) ...` means the value before the assignment,
  whatever was assigned to whom before, other references included.
- `SavedFound`: a reference to a saved value is never lost, not even when `+=`
  copies it into another scope, while one build is active.
- `OwnWordsOfOneBuild`: then a target's variables hold no words that were assigned
  to another target.

Two assignments are what these need: one that saves or is inherited, and one that
saves again, appends to a copy, or closes a circle of references.

Of `CopyTree` and `FileCommands` (run `files`):

- `CompleteUnlessMissed`: a copy that reports success is complete, links followed,
  but for the case that `copy_complete` shows, and unless links in the destination
  lead two names to one file, or to one directory that is new (`TwoNames`). On Linux
  what is new has the permissions that umask leaves of those of its source. On Windows
  a directory link that leads nowhere passes for the copy of an empty directory.
- `NothingHalf`: however a call ends on Linux, no file that it created is half
  written, unless it wrote over that file again under a second name. That name may be
  one that the copy made itself, in a source that leads into the destination.
- `PriorKept`: whatever was there before a copy is there throughout it and of its
  kind; only files that may be written change. On Linux they stay writable; on Windows
  a file that is written over may become read-only, as its source is. A directory that
  cleaning up takes away was made by the same activation.
- `NotIntoItself`: a copy reads what it has made itself only where the check before
  it does not look: it compares the two operands and nothing else. A link below the
  source or below the destination may lead from one to the other, and a source may
  lie below its own destination.
- `Terminates`: a copy ends even then, and in a tree with pipes, which are refused
  unopened; `cp` of a single file ends unless it is a pipe that no one writes to.
- `OnlyNamed` is two things. `OnlyCounterparts`: whatever a copy made or changed is
  found below the destination under the name that something of the same kind has
  below the source. `OnlyOperands`: `rm` removes what is below its operand in the tree
  and crosses no link; what `mkdir` and `touch` make is found under the operand, or
  under a part of it.
- `SuccessMeansDone`: after `rm` nothing is left of what the operand named, after
  `mkdir` there is a directory, or on Windows a link, which `dir_exists` does not
  follow, after `touch` what the operand leads to has the time,
  and a file that `test` finds can be reached. Left out are an operand that `lstat`
  could not tell about or that others took the way to, and files that others made or
  removed under the hands of `touch`.
- `RmHasCause`: `rm -rf` fails only because a system call did, others changed the
  tree, or there is an `Obstacle`. Two obstacles are surprising: on Linux a
  link *below* a directory whose target cannot be looked up, or a file dated
  ahead, make the listing fail, and with it `rm`; and what cannot be looked up
  includes what `rm` itself has removed by then.
- `DateKept`: the date of `touch -t` comes back from the file, if the clocks have
  shown it.

Of `DirCache` (run `directories`):

- `KnowsStable`: a timestamp is at least that of every file below that nobody has
  touched, and one that some file below has had.
- `FailureHasCause`: files that come and go while their directory is read are no
  error, and a time is called future only if it was.
- `NothingAhead`: no time in the cache is later than the clock.
- `VirtualIsNewest`: the newest time below a directory is remembered only when all
  of it was read, and is the newest of it, in spite of listings of different ages.
- `GlobIsExact`: a pattern gives all paths that match it and that nobody touched,
  and none that never existed.
- `IsAnswered`: every question is answered, also where links go round.

Of `Glob`:

- `ExactUnlessOver`: a pattern matches the names that it means and no others,
  against a definition by recursion on both; but for names whose NUL was compared
  with `?` or with `[!...]`, where the matcher goes on into the next name.
- `Ends`: the search ends, although it goes back.

Of `WorkingDir`:

- `SameDirectory`: the logical directory leads to that of the process, through
  whatever links it was entered and whichever changes failed.
- `SameFile`: a path means the same file to blud, which resolves `..` by text, and to
  a command, for which the kernel does, and so does the relative form that blud makes
  of it; on Linux where `..` cancels a directory, as `aliasdir.lua` 5 says.


### Fairness

`WF_vars(Step)` in `Update` and `CopyTree`, `WF_vars(Next)` in `Glob`,
`WF_allVars((Step /\ UNCHANGED own) \/ Command)` in `FileCommands`, `WF_vars(Blud)` in
`DirCache`: the
process keeps going while it can take a step, which is how one thread runs. In
`Update` it includes that an action returns (a recipe that hangs makes blud hang).
`Step` of `CopyTree` has everything but `OpenPipe`: `open` of a pipe returns when
another process opens the other end, which none has to do. There is no fairness on kills, edits, invocations or other programs, and none that
makes a system call fail or succeed. `TestRun`, `LuacCache` and `RuleDecl` state no
liveness property: their steps follow each other in a line, and the only loops are
over finite sequences. Neither do `Scopes`, where a bludfile may end after any
assignment, and `WorkingDir`, where an action may.

### Disagreements found

Two runs show that the code does not do what the repository says:

- `RunsWhenChanged` (README.md 235-236: changing the source causes a test to run
  again, `-B` forces it): marker and staged files are expected to be of type 1,
  but a regular file is of type 3 in both back ends. Every test runs every time.
- `CopyComplete` (os.h 49-50: return 0 on success and -1 on failure):
  `copy_dir_exact` of `oslinux.c` keeps the result of the last child in `result`, and
  three ways leave the loop without setting it. When a file was copied and the next
  entry cannot be reached, such as a link to nowhere, the rest of the directory is
  left out and 0 is returned. On Windows every way out sets the result.

Others were met while modelling and have no run of their own; where they touch a
property it names them:

- In `blud debug release` both contexts get the default target as a root, but `BIND`
  keeps the name bound in the first one: `release/prog` is not made.
- The reserved key `.` of a directory's entries (operator.lua 624, dircache.lua 294)
  is copied like a file by `update_directory`; its destination is the workspace, so a
  test whose source is a directory always ends in an error.
- A `bludfile.luac` that was cut short is newer than the bludfile, counts as current,
  does not load, and stops every invocation until the bludfile changes or the cache is
  deleted (blud.lua 221).
- Targets of one declaration share a table of prerequisites (operator.lua 261, 317,
  343), although "Parsed target words are normally independent rules" (236) and
  "multiple targets synonym for multiple rules" (259). After `a b : common.h` and `a :
  a.c` with an action, `b : b.c` adds `b.c` to the rule of `a` as well, which has its
  action already.
- `cp` of a pipe waits until someone writes to it, and then refuses it: the source is
  opened (oslinux.c 187) before it is asked what it is (192). `cp -r` of a tree with
  a pipe in it refuses at once (331-342).
- On Windows `cp` of a read-only file over a writable one makes it read-only
  (`CopyFileW`, oswindows.c 120), so that the same command fails the next time; on
  Linux the permissions of a file that is written over stay (oslinux.c 207).
- On Windows `dir_exists` (oswindows.c 191) asks for an attribute that a directory link
  has wherever it leads: `mkdir -p` of a link to nowhere succeeds and makes nothing,
  and so does the copy of an empty directory to one.
- The `cd` of an order-only prerequisite's action is still in effect when the test that
  comes after it is compared, staged and marked (operator.lua 789-853, shell.lua
  645-647), so that the relative names of that test and of those behind it are
  resolved from there.
- `+=` appends to what the target inherits at that time, the values of the active
  build included, and keeps the copy: after `debug: CFLAGS += -g` and `release: CFLAGS
  += -O2`, with debug active, release has both.
- A link in the destination may lead two files of the source to one file: the last one
  wins, the copy reports success, and a failure of the second one leaves half of it,
  because a file that existed is not removed (`created`, oslinux.c 245).
- `rm -rf` on Linux may stand in its own way. A listing leaves out a link whose target
  is gone, so that the `rmdir` after it finds the directory not empty: with `s/b/a` a
  link to `/s/a`, `rm -rf s` removes `s/a` and fails at `s/b`. And with `d` a link to
  `s/b/a`, itself a link to `s`, `rm -rf d/b` removes the link that its operand leads
  through.
- `copy_destination` and `same_or_child_path` refuse to copy a directory into itself,
  but not what is below a destination onto it (`cp -r /d/d /`), nor a link below the
  destination that leads back to the source.
- `a?` matches `a`, because `?` is compared with the NUL behind the name; README.md 94
  says that an unmatched pattern contributes no prerequisite.


## What is proved

`UpdateProofs` proves, for every set of atoms, directories and well-formed
projects, every bound and every clock:

- `Invariance`: `Spec => []IInv`
- `TypeCorrect`, `RunsAtMostOnce`, `CircularOnlyOnCycle`: the invariants
  `TypeOK`, `AtMostOnce`, `CircularOnCycle`
- `RunsInOrder`: the action property `OrderRespected`
- `FreshAfterSuccess`, `QuietAfterSuccess`: the invariants `FreshOnSuccess` and
  `QuietRebuild`
- `Refinement`: `Spec => ImplementsBuildOrder`

The assumptions are `ConstantsAssumption` and `ProjectsAssumption` of `Update`;
TLC evaluates them in every run. They say that `Nil` is none of the values it
stands beside, that only dependency rules have prerequisites or an action,
which `:BUILD:` asserts when it is declared, and that no file is later than the
clock, which is an error when its directory is read (`blud.c:255`).

The argument. `AtMostOnce` is not inductive, for nothing in the code records
that an action has run. `IInv` says why it cannot run again:

1. `PathInv` and `ControlInv`: the stack is a chain of prerequisites of distinct
   atoms, and `BUILDING` is exactly the set of its atoms.
2. `SettledInv`: an atom returns only after its prerequisites have; an atom that
   was treated as a source will not get a pattern rule later, because the
   snapshot of the current directory never changes (`RulesInv`).
3. `StampsInv`: the local timestamp of an active call is the remembered one,
   since nobody else sets it while `BUILDING` is set, and a name given to `-W`
   has the newest time or none.
4. `TimesInv`: without `-B`, a call's newest time is the greatest of the
   prerequisites it has seen, and a settled target with an action has a
   timestamp that is not older than those of its prerequisites.
5. So when a settled target is visited again its newest prerequisite is not
   newer than it is, and `NeedsBuilding` is false (`NotAgain`).

`OrderRespected` follows from 2 and 5, `CircularOnCycle` from 1; each step of the
traversal is a step of `BuildOrder` or leaves its variables alone, with 2 for
`Settle` and `Discover`.

`FreshOnSuccess` needs the disk as well, and a second invariant, `DiskInv`, on top of
`IInv`. While a plain invocation has not failed (`Unfailed`), a remembered time is
that of the file or, when it is the newest one, the action has run and the atom has
settled (`Remembered`); and a directory that was read still shows every name without
a timestamp as it is (`AsRead`), for only the action of a name changes it, and that
comes after the name has its timestamp. So a target that settles without an action
run is compared with the times its prerequisites really have, one that settles after
its action is written after them, and with 5 none of these files is written again.
The proof does not use that directories are read in any particular order.

`QuietRebuild` compares two invocations that do not know of each other. What they
share is shown first: the rule of a settled atom is the one that `ChosenRule` picks from
the project and the sources in the current directory (`ChoiceInv`); the atoms that are
settled are those that the roots built so far reach by these rules (`RootInv`,
`ReachedInv`); and each is looked up in one directory, which follows from the roots
(`PlacedInv`). So all three are functions of the project, the roots and the names
that the current directory shows at the start, and the sources among these names
are the same in the second invocation, because an action writes only its own target
(`SourcesInv`). The first one leaves
the files of what it reached in order (`MadeInv`, `SyncedInv`), which no action of
the second disturbs, since there is none. The property had been stated with less: that
pattern rules start from files without an action of their own. With patterns `: obj`
and `: hdr` for `prog`, and `: c` with an action for `obj`, `blud prog obj` makes `obj`
only after `prog` has chosen `hdr`, and chooses `obj` the next time; the proof came
to a halt there.

`TestRunProofs` proves, from `TestConstants` and for every suite, command and
history of failures, kills and edits:

- `MarkersEarned`: the invariant `MarkerEarned`
- `AlwaysHome`: the invariant `HomeAgain`
- `PrintsOnly`: the action property `PrintOnly`
- `SuiteWasTested`: the invariant `SuiteTested`

None of the four is inductive. `TestInv` adds that steps which write are not
reached with `-n` (`Control`), that from entering to leaving a workspace the way
home, which is the place the test was begun in, is the one entry of the stack
(`Places`), and that the marker is gone from
its removal to the end of the action (`Markers`). `SuiteWasTested` also needs `Tested`:
the tests before the current one have passed on their sources, except one that is
just being run again; what has been copied so far equals the source; and since staged
files and markers are regular files, never the leaf that the code compares their type
with, every file is staged anew and every action runs.

`BludfileProofs` proves, from `CacheBounds` of `LuacCache`:

- `CacheCurrent`: the invariant `RunsCurrent`

`CacheInv` adds that nothing is newer than the clock (`NotAhead`), that whole
bytecode which differs from the bludfile or the program is no newer than that
file (`TimesTell`, the reason why the comparison must be strict), and that what a
process has read is no older than its start (`ReadRecently`).

`RuleDeclProofs` proves, from `DeclarationConstants` and `NilIsNoRule` and for
every bludfile and command line:

- `DeclarationsAccumulate`, `TestsHaveOneSuite`, `EndlessNeedsRepeat`: the
  invariants `ListsAccount`, `SuiteOwnsTests`, `EndlessOnRepeat`
- `ExpandsWhereItBuilds`: the invariant `ExpandedWhereBuilt`
- `RulesAreNotReplaced`: the action property `RulesStay`

`DeclInv` adds who may hold a list (`Holders`): while a declaration is evaluated
only targets of it that were handled already hold its list, which is why an
append to itself needs a repetition; suites and tests hold lists of their own,
which is why an append to a rule leaves them alone. For `ListsAccount` it adds that
the list of a target in `alone` is held by no other rule. `Ownership` says that only
tests have a suite, and that it is one.

`ExpandedWhereBuilt` relates two functions written apart. Outside of a `:BUILD:`
declaration, `build_atom` is what `SelectDeclaredBuild` selects for the declarations
so far (`SelectInv`), and the default target is never a build context. The lists that
`ConcreteTargets` puts together begin with the selected context, and hold no name
besides those of the command line except the default target.

`BludfileProofs` also proves, from `ScopesConstants` (finitely many names; saved names
are names that a bludfile cannot spell) and for every sequence of assignments and
activations:

- `TypeCorrect`: `TypeOK`
- `SavedValuesAreFound`, `WordsAreOwn`: the invariants `SavedFound` and
  `OwnWordsOfOneBuild`
- `RefersToValueBefore`: the action property `SelfReference`

Expansion is a recursion through the definitions of names, and it has to be shown
that it reaches an end before anything else can be said of it: names do not repeat
on its stack, so what holds of a stack when it holds of all stacks one name longer
holds of all of them. `ScopesInv` says that numbers of saved values are fresh
(`Numbered`) and that references and words point outward: what a table refers to is
in it or in the scopes that are searched after it (`FoundFrom`, `WordsFrom`), which
is why a copy that `+=` makes still finds them. For `SelfReference`, the saved name has
below `n` the value that `n` had, and a name that `n` refers to means the same above
and below: where it comes back to `n`, it goes round from either side.

`CopyTreeProofs` proves, from `LimitsAssumption`, `RequestsAssumption`,
`TreesAssumption` (what exists is in a directory, and there is a root) and
`WholeAssumption` (`Torn` is only what a call leaves), for every tree, link, permission
and failing call; and `FileProofs`, with `CommandsAssumption` and `DatesAssumption` (years
are those that so many digits can spell, and the clock shows one of four), for the
commands, whatever others make and remove:

- `CopyTypes`: the type invariant of `CopyTree`, which says that what is open exists
  and is what it was opened as
- `PriorContentStays`, `ReadsNotWhatItMade`: the invariants `PriorKept` and
  `NotIntoItself` of `CopyTree` by itself; `CopiesAmongCommands`: of copies among the
  other commands
- `CopiesByThemselves`: `CompleteUnlessMissed`, `NothingHalf` and `OnlyCounterparts` of
  `CopyTree` by itself
- `SuccessIsTrue`: the invariant `SuccessMeansDone`
- `NothingElse`: the invariant `OnlyNamed`
- `CopiesAreComplete`, `NothingIsLeftHalf`: the invariants `CompleteUnlessMissed` and
  `NothingHalf`
- `RmFailsForCause`: the invariant `RmHasCause`
- `DatesAreKept`: the invariant `DateKept`

`PriorStays` is the part of `PriorKept` behind its premise. A copy may write over a
file that it found if the file may be written, with the mode of that file or, on
Windows, of the source (`Allowed`). It is not inductive: cleaning up removes a directory that this activation
made, a failing transfer the file that it created. `OwnPlaces` adds that what is
marked `created` was not in the tree that the call found, and that the directory an
activation made is used by no activation around it. A copy that goes into itself
through a link may read what it has made, so that this is not a matter of paths
but of the order in which frames were entered.

All others but `DatesAreKept` speak of what `Walk` computes. `Walk` is a recursive
function, and what is needed of it is derived once: from one position it goes on (`Onward`) to one
with fewer links left, or as many and a shorter rest of the path. That such a function
exists is shown by putting partial ones together, and what holds of a position when it
holds of the next one holds of all of them. From this come the laws of walks: a longer
path goes on from where a shorter one leads, `lstat` and `stat` differ only at a link
that is the last name, a larger tree leads to the same places, and what is made under
a name is found under it.

- `NotIntoItself` (`SelfInv`): the place of the source and that of the destination are
  apart, all that was opened is below the one and all that was made is below the
  other, when no link leads from one to the other. Two exceptions were missing from
  the property as it was first written: a link below the *destination*, which a copy
  enters when a directory of that name exists there, and a source below its own
  destination.
- `SuccessMeansDone` (`RmInv`, `MkdirInv`, `TouchInv`): `rm` is only in directories of
  the original tree, each reached by its name from the operand, so that the last
  removal is that of the operand itself; what `mkdir` and `touch` have made is found
  under their operand, and stays where it is unless others take it. On Linux `touch`
  creates a file through links: `LedTo` goes along them one at a time, each time with
  all of the kernel's links, so it has to be shown that a walk with fewer links left
  goes the same way or gives up. What the predicates of `test` find is no dangling
  link.
- `OnlyNamed` (`NamedInv`): every new or changed entry has a mate, an entry below the
  source that is found under the same relative name. A copy into its own source may
  have mates that it made itself, and cleaning up may remove these; so `NamedInv` adds
  that a source goes only together with its counterpart. That holds because below a
  directory that the copy has made there is no link, and because activations are
  nested: what one has made is below what those around it have made.
- `CompleteUnlessMissed` and `NothingHalf` (`WholeInv`): the stack says which names below
  the source the copy has still to come to (`Coming`). Unless an entry was missed, every
  other name that the call found there has a faithful copy (`Got`), or two names meet
  (`Twice`). Faithful is a copy that is equal but for what umask took (`Equal`), or, on
  Windows, a directory link where an empty directory was (`Lost`). What could spoil a copy, a file written over or a last `chmod`, is at a
  place that a second name leads to: for whatever is new, but for what is just being
  made, is the copy of a name that is past (`Pasts`), and a step of the copy is about
  one that is not. Only the file that is being written is torn (`Clean`). Once a call
  has failed, all the activations that are left fail too, without a further write
  (`FailedIs`).
- `RmHasCause` (`CauseInv`): as long as no call has failed and others have done nothing,
  what is open is nested (`Nest`), and every entry that is left in it is untouched and
  to come, or leads to where `rm` is (`InOrder`). So the tree always holds the
  least that may be left of it (`LeftFor`), and what can be looked up in that smaller
  tree can be looked up in the real one. If there is no `Obstacle`, each listing
  then shows all there is, and each `rmdir` finds its directory empty.

Both parts of `TwoNames` that go beyond two names for one file were found this way.
With `d/s/b` a link to `d/s/a`, a copy of `s` with the directories `a` and `b` makes
*one* directory for both, which gets the permissions of the second; and with `s/d` a
link to `d/s/a` and `d/s/d` one to `d/s/b`, `s/d/a` is there once `s/a/a` is copied, and
its own copy goes over that of `s/b/a`. TLC confirmed either in seconds once the trees were known; they are among
those of the run since (`OneForTwo`, `OverItself`).

`DateKept` needs that `Civil` undoes `Seconds` for every date that exists, in any
year. The days before a year are bounded from both sides by 146 097 days in 400 years,
so that the guess of `Civil` is at most one year off; years and months begin in
order, so that there is one year and one month that a day lies in; the rest is
division with remainder. Of the zone, whatever its offsets, only that the clocks
have shown the time is used. The days before each
month are a table, as in the C libraries; the formula for them that the proof uses
instead is compared with the table month by month.

`DirCacheProofs` proves, from `QuestionsAssumption` and whatever others do:

- `CacheNotAhead`: the invariant `NothingAhead`
- `FutureIsReal`: `FutureHasCause`, one half of `FailureHasCause`
- `VirtualIsTheNewest`: the invariant `VirtualIsNewest`

`AheadInv` adds that every time of a file is in the log with whether it was ahead of
the clock when the file got it (`Logged`; the clock only grows), and that a listing
which holds a time later than the clock has been marked by the callback (`Listed`),
which reads the clock *after* the file's time.

`VirtualIsNewest` speaks of everything below a directory; `NewestInv` says it of one
level. A virtual timestamp covers (`Covers`) the directory's own time and what is
remembered for each of its entries; a directory on the stack is still to be done in
the one above it, so that nothing above it is remembered before it is; and a frame's
newest time covers the entries that are done. That this reaches all depths is an
induction on the length of the path.

`WorkingDirProofs` proves, from `WorkingDirAssumption` and for every tree and history:

- `DirectoriesAgree`: the invariant `SameDirectory`

`DirInv` adds that before `os_getcwd` returns, the process is where its path leads.

Only model-checked, with the reason:

- `ErrorHasCause`, the other half of `FailureHasCause`, and `SameFile`: they hold on
  the instances and not for every value of the constants. Nested links may exceed
  `MaxLinks` without going round, and the limit on the length of a path may stop one
  form of it and not the other, whose steps are taken one by one.
- `KnowsStable` and `GlobIsExact` compare an answer with files that nobody touched
  while any number of listings of different ages were made.
- `ExactUnlessOver` of `Glob`: its reference definition is a recursion on pattern and
  name, and the matcher goes back.
- `Terminates`, `IsAnswered`, `Ends`: liveness is out of the prover's reach.

Induction over data is a limit of its own. The induction theorems of the library take
an operator and cannot be used; what can be is that a well-founded relation has
minimal elements, and from it follow induction on numbers for sets of numbers, and
that a recursive function is what its definition says. `BludfileProofs`,
`CopyTreeProofs`, `DirCacheProofs` and `RuleDeclProofs` each derive what they need of this.

## What is not modelled

`PROJECT.json` lists every component with its status. Left out, with the reason:

- *double-colon rules*: which object files `::` infers is a function of the words of
  one rule and of the list of pattern rules, without state; what it leaves behind
  are rules as in `RuleDecl`.
- *why report*: it explains decisions after they were made and changes nothing.
- *line reader and compiler*: from text to text, without interleavings or failures;
  a model would repeat the characters.
- *exit protocol*: `BLUD_ASSERT_EXIT` is one comparison at the end of a process.
- *implicit rules*: matching and expanding `%` are functions on strings; which rule is
  taken is part of `Update`.
- *shell actions*: `echo`, `source` (text run as an action), unknown commands and the
  grammar of command lines. What they may do to files is any action of `Update`.
- *Windows*: conversions of names, drives, shares and letter case, and the search
  for the executable. A date that does not exist (30 February, second 60) is moved to
  the next day or minute on Linux and refused on Windows; `DateKept` speaks of dates
  that exist.
- *times*: nanoseconds, and the one second that is equal to "oldest" (the beginning
  of 1970 in UTC).
- *atoms and `cd`*: an atom that is bound to a relative name means another file
  after an action changed the directory; `Update` has no directories below its own.
- the debugger, printing and dumping, the embedding of Lua sources.
