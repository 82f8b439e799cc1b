--------------------------- MODULE ErrorReporting ---------------------------
(***************************************************************************)
(* Error reporting (asm/error.c) under the pass loop of assemble_file.     *)
(* Before the final pass, warnings and errors that a later pass may not    *)
(* have ("holdable") are collected and thrown away at the end of the pass; *)
(* the first real error brings them all out.  While the assembler tries    *)
(* something out, messages are held: they are dropped, or passed on one    *)
(* level up.  The program switches warnings on and off, and each pass      *)
(* starts with what the command line said.                                 *)
(***************************************************************************)
EXTENDS Integers, Sequences

CONSTANTS
    Classes,        \* warning classes
    StackEmpty,     \* the class warn-stack-empty
    Unknown,        \* the class unknown-warning
    Names,          \* sets of classes a warning name in the program stands for
    CommandLines,   \* the warning states that a command line leaves
    Kinds,          \* the kinds of messages that the assembler reports
    MaxReports,     \* bound: messages in all
    MaxPasses,      \* bound: passes
    MaxHolds,       \* bound: depth of the hold stack
    MaxPushes       \* bound: entries the program pushes on the warning stack

WARNING == 6
NONFATAL == 8
FATAL == 12
Severities == {WARNING, NONFATAL, FATAL}

Flags == {"undead", "pass2", "hold"}
StatusBits == {"enabled", "error"}
WarningStates == [Classes -> SUBSET StatusBits]

Message == [id : Nat \ {0}, type : Severities, flags : SUBSET Flags,
            listmacro : BOOLEAN, pass : Nat]

ASSUME ClassesAssumption ==
    /\ {StackEmpty, Unknown} \subseteq Classes
    /\ Names \subseteq SUBSET Classes
    /\ CommandLines \subseteq WarningStates

(* Only nasm_holderr marks a message ERR_HOLD, and only errors and warnings *)
(* are marked ERR_UNDEAD (labels.c:553, nasm.c:1921-1938).                 *)
ASSUME KindsAssumption ==
    /\ Kinds \subseteq [severity : Severities, class : Classes,
                        flags : SUBSET Flags]
    /\ \A k \in Kinds : "hold" \in k.flags => k.severity = NONFATAL
    /\ \A k \in Kinds : "undead" \in k.flags => k.severity < FATAL

VARIABLES
    stage,          \* "between" passes, "reading", "cleanup" or "done"
    pass, final,    \* pass_count(), pass_final() or preprocessing only
    worst,          \* erropt.worst
    never,          \* erropt.never
    warning_state,
    warning_stack,  \* from the bottom (warning_state_init) to the top
    buffering,      \* warn_list exists
    warn_list,      \* what is in it
    errhold_stack,  \* lists of messages, from the bottom to the top
    popped,         \* what the last call of nasm_error_hold_pop returned
    written,        \* what went to erropt.file
    outcome,        \* "running", "ok", "failed" or "died"
    reported,       \* history: all messages that were not suppressed
    dropped,        \* history: the ids of those a hold threw away
    pushedAt,       \* history: how many were reported before each hold
    cmdline         \* history: the warning state of the command line

warningVars == <<warning_state, warning_stack>>
bufferVars == <<worst, never, buffering, warn_list, written>>
passVars == <<pass, final, cmdline>>
vars == <<stage, outcome, passVars, bufferVars, warningVars, errhold_stack,
          popped, reported, dropped, pushedAt>>

Highest(S) == CHOOSE x \in S : \A y \in S : y <= x
Types(messages) == {messages[i].type : i \in DOMAIN messages}
Top(s) == s[Len(s)]
Below(s) == SubSeq(s, 1, Len(s) - 1)

-----------------------------------------------------------------------------
(* A warning that is enabled and marked as an error is an error.           *)
true_error_type(state, k) ==
    IF k.severity = WARNING /\ state[k.class] = StatusBits
    THEN NONFATAL ELSE k.severity

(* deadBranch: the preprocessor is in a branch that is not assembled.      *)
is_suppressed(state, k, deadBranch) ==
    /\ k.severity < FATAL
    /\ \/ k.flags \cap never # {}
       \/ k.severity = WARNING /\ "enabled" \notin state[k.class]
       \/ deadBranch

BufferableIfHeld(m) == "hold" \in m.flags
Bufferable(m) == m.type < NONFATAL \/ "hold" \in m.flags

(* nasm_issue_error for messages in a row.  The first that cannot be       *)
(* buffered writes the buffer out and does away with it, so that all from  *)
(* it on are written and count; the lines that list macros never count.    *)
CountedAlways(messages) ==
    {messages[i].type : i \in {j \in DOMAIN messages : ~messages[j].listmacro}}
Counted(messages) ==
    {messages[i].type : i \in
        {j \in DOMAIN messages :
            /\ ~messages[j].listmacro
            /\ \/ ~buffering
               \/ \E first \in 1..j : ~Bufferable(messages[first])}}

FlushedLate(messages) == messages \o warn_list
Flushed(messages) == warn_list \o messages

NeverStill(messages) == never
NeverAfter(messages) ==
    IF NONFATAL \in Counted(messages) THEN never \cup {"undead"} ELSE never

Issue(messages) ==
    LET kept == buffering /\ \A i \in DOMAIN messages : Bufferable(messages[i])
    IN /\ buffering' = (buffering /\ kept)
       /\ warn_list' = IF kept THEN warn_list \o messages ELSE <<>>
       /\ written' = IF kept THEN written ELSE written \o Flushed(messages)
       /\ worst' = Highest({worst} \cup (Counted(messages) \ {FATAL}))
       /\ never' = NeverAfter(messages)

(* The message, and "... from macro" if a macro is being expanded.  That   *)
(* is suppressed when its message was the error that silences the undead.  *)
LinesMacroFirst(m, held, inMacro) ==
    IF inMacro THEN <<[m EXCEPT !.listmacro = TRUE], m>> ELSE <<m>>
Lines(m, held, inMacro) ==
    LET silenced == ~held /\ m.type = NONFATAL /\ "undead" \in m.flags
    IN IF inMacro /\ m.type < FATAL /\ ~silenced
       THEN <<m, [m EXCEPT !.listmacro = TRUE]>>
       ELSE <<m>>

IsHeldIfMild(m) == errhold_stack # <<>> /\ m.type < NONFATAL
IsHeld(m) == errhold_stack # <<>> /\ m.type <= NONFATAL

(* nasm_verror, with the warning state at the time of the call. *)
nasm_verror(state, k, deadBranch, inMacro) ==
    LET m == [id |-> Len(reported) + 1, type |-> true_error_type(state, k),
              flags |-> k.flags, listmacro |-> FALSE, pass |-> pass]
    IN IF is_suppressed(state, k, deadBranch)
       THEN UNCHANGED <<stage, outcome, bufferVars, errhold_stack, reported>>
       ELSE /\ reported' = Append(reported, m)
            /\ IF IsHeld(m)
               THEN /\ errhold_stack' =
                           Append(Below(errhold_stack),
                                  Top(errhold_stack) \o Lines(m, TRUE, inMacro))
                    /\ UNCHANGED bufferVars
               ELSE /\ Issue(Lines(m, FALSE, inMacro))
                    /\ UNCHANGED errhold_stack
            /\ IF m.type = FATAL            \* die_hard
               THEN stage' = "done" /\ outcome' = "died"
               ELSE UNCHANGED <<stage, outcome>>

-----------------------------------------------------------------------------
(* After error_init. *)
Init ==
    /\ stage = "between" /\ outcome = "running"
    /\ pass = 0 /\ final = FALSE
    /\ worst = 0 /\ never = {}
    /\ cmdline \in CommandLines
    /\ warning_state = cmdline
    /\ warning_stack = <<cmdline>>
    /\ buffering = FALSE /\ warn_list = <<>>
    /\ errhold_stack = <<>> /\ popped = 0
    /\ written = <<>>
    /\ reported = <<>> /\ dropped = {} /\ pushedAt = <<>>

terminate_after_phase == worst >= NONFATAL

(* The head of the pass loop, with error_pass_start.  A first pass that is *)
(* final is the only one of a run that just preprocesses.                  *)
BeginPass ==
    /\ stage = "between" /\ ~terminate_after_phase /\ ~final
    /\ stage' = "reading"
    /\ pass' = pass + 1
    /\ final' \in IF pass' < MaxPasses THEN BOOLEAN ELSE {TRUE}
    /\ worst' = 0
    /\ buffering' = ~final'
    /\ never' = IF final' THEN {} ELSE {"pass2"}
    /\ popped' = 0
    /\ UNCHANGED <<outcome, cmdline, warn_list, written, warningVars,
                   errhold_stack, reported, dropped, pushedAt>>

ResetStateToTop == Top(warning_stack)
ResetState == warning_stack[1]

(* error_pass_end *)
EndPass ==
    /\ stage = "reading" /\ errhold_stack = <<>>
    /\ stage' = "between"
    /\ buffering' = FALSE /\ warn_list' = <<>>
    /\ warning_stack' = <<warning_stack[1]>>
    /\ warning_state' = ResetState
    /\ popped' = 0
    /\ UNCHANGED <<outcome, passVars, worst, never, written, errhold_stack,
                   reported, dropped, pushedAt>>

(* After the passes the output format finishes the file: it may complain.  *)
CleanUp ==
    /\ stage = "between" /\ ~terminate_after_phase /\ final
    /\ stage' = "cleanup"
    /\ UNCHANGED <<outcome, passVars, bufferVars, warningVars, errhold_stack,
                   popped, reported, dropped, pushedAt>>

Finish ==
    /\ stage = "cleanup" \/ (stage = "between" /\ terminate_after_phase)
    /\ stage' = "done"
    /\ outcome' = IF terminate_after_phase THEN "failed" ELSE "ok"
    /\ UNCHANGED <<passVars, bufferVars, warningVars, errhold_stack,
                   popped, reported, dropped, pushedAt>>

(* Something in the assembler reports a message.  Those marked undead come *)
(* from the definition of labels and the end of a pass, where nothing is   *)
(* held.                                                                   *)
Report ==
    /\ stage \in {"reading", "cleanup"} /\ Len(reported) < MaxReports
    /\ \E k \in Kinds, deadBranch, inMacro \in BOOLEAN :
        /\ "undead" \in k.flags => errhold_stack = <<>>
        /\ nasm_verror(warning_state, k, deadBranch, inMacro)
    /\ popped' = 0
    /\ UNCHANGED <<passVars, warningVars, dropped, pushedAt>>

-----------------------------------------------------------------------------
(* calcsize_speculative and the expansion of single-line macros hold what  *)
(* is reported until they know whether they want it.                       *)
nasm_error_hold_push ==
    /\ stage = "reading" /\ Len(errhold_stack) < MaxHolds
    /\ errhold_stack' = Append(errhold_stack, <<>>)
    /\ pushedAt' = Append(pushedAt, Len(reported))
    /\ popped' = 0
    /\ UNCHANGED <<stage, outcome, passVars, bufferVars, warningVars,
                   reported, dropped>>

DroppedIntoUp ==
    IF Len(errhold_stack) = 1 THEN <<>>
    ELSE Append(Below(Below(errhold_stack)),
                Top(Below(errhold_stack)) \o Top(errhold_stack))
AfterDrop == Below(errhold_stack)

Drop ==
    /\ stage = "reading" /\ errhold_stack # <<>>
    /\ errhold_stack' = AfterDrop
    /\ pushedAt' = Below(pushedAt)
    /\ popped' = Highest({0} \cup Types(Top(errhold_stack)))
    /\ dropped' = dropped \cup {Top(errhold_stack)[i].id :
                                   i \in DOMAIN Top(errhold_stack)}
    /\ UNCHANGED <<stage, outcome, passVars, bufferVars, warningVars, reported>>

PassedOnAlone == Append(Below(Below(errhold_stack)), Top(errhold_stack))
PassedOn ==
    LET lower == Below(errhold_stack)
    IN Append(Below(lower), Top(lower) \o Top(errhold_stack))

PassOn ==
    /\ stage = "reading" /\ Len(errhold_stack) > 1
    /\ errhold_stack' = PassedOn
    /\ pushedAt' = Below(pushedAt)
    /\ popped' = 0
    /\ UNCHANGED <<stage, outcome, passVars, bufferVars, warningVars, reported,
                   dropped>>

IssueHeld ==
    /\ stage = "reading" /\ Len(errhold_stack) = 1
    /\ Issue(Top(errhold_stack))
    /\ errhold_stack' = <<>> /\ pushedAt' = <<>>
    /\ popped' = Highest({0} \cup Types(Top(errhold_stack)))
    /\ UNCHANGED <<stage, outcome, passVars, warningVars, reported, dropped>>

-----------------------------------------------------------------------------
(* The directive [WARNING]: a line of the program, so nothing is held.     *)
InDirective == stage = "reading" /\ errhold_stack = <<>>

push_warnings ==
    /\ InDirective /\ Len(warning_stack) <= MaxPushes
    /\ warning_stack' = Append(warning_stack, warning_state)
    /\ popped' = 0
    /\ UNCHANGED <<stage, outcome, passVars, bufferVars, warning_state,
                   errhold_stack, reported, dropped, pushedAt>>

StackWithoutTop == Below(warning_stack)
StackAfterPop ==
    IF Len(warning_stack) = 1 THEN warning_stack ELSE Below(warning_stack)

(* The bottom is restored but stays, and the program is told.              *)
pop_warnings ==
    /\ InDirective
    /\ warning_state' = Top(warning_stack)
    /\ warning_stack' = StackAfterPop
    /\ popped' = 0
    /\ IF Len(warning_stack) = 1
       THEN /\ Len(reported) < MaxReports
            /\ nasm_verror(Top(warning_stack),
                           [severity |-> WARNING, class |-> StackEmpty,
                            flags |-> {}], FALSE, FALSE)
       ELSE UNCHANGED <<stage, outcome, bufferVars, errhold_stack, reported>>
    /\ UNCHANGED <<passVars, dropped, pushedAt>>

Switched(action, bit, old, initial) ==
    CASE action = "off" -> old \ {bit}
      [] action = "on" -> old \cup {bit}
      [] action = "reset" -> (old \ {bit}) \cup (initial \cap {bit})

(* {+|-|*}name sets one bit of the classes, error=name the other; a name   *)
(* nobody knows changes nothing.                                           *)
set_warning_status(name, action, bit) ==
    /\ InDirective
    /\ warning_state' =
           [c \in Classes |->
               IF c \in name
               THEN Switched(action, bit, warning_state[c], warning_stack[1][c])
               ELSE warning_state[c]]
    /\ popped' = 0
    /\ IF name = {}
       THEN /\ Len(reported) < MaxReports
            /\ nasm_verror(warning_state,
                           [severity |-> WARNING, class |-> Unknown,
                            flags |-> {}], FALSE, FALSE)
       ELSE UNCHANGED <<stage, outcome, bufferVars, errhold_stack, reported>>
    /\ UNCHANGED <<passVars, warning_stack, dropped, pushedAt>>

Actions == {"off", "on", "reset"}

SetWarningStatus ==
    \E name \in Names, action \in Actions, bit \in StatusBits :
        set_warning_status(name, action, bit)

-----------------------------------------------------------------------------
Next ==
    \/ BeginPass \/ EndPass \/ CleanUp \/ Finish
    \/ Report
    \/ nasm_error_hold_push \/ Drop \/ PassOn \/ IssueHeld
    \/ push_warnings \/ pop_warnings \/ SetWarningStatus

Spec == Init /\ [][Next]_vars

-----------------------------------------------------------------------------
TypeOK ==
    /\ stage \in {"between", "reading", "cleanup", "done"}
    /\ outcome \in {"running", "ok", "failed", "died"}
    /\ pass \in Nat /\ final \in BOOLEAN
    /\ worst \in {0, WARNING, NONFATAL} /\ never \subseteq Flags
    /\ warning_state \in WarningStates /\ cmdline \in WarningStates
    /\ warning_stack \in Seq(WarningStates) /\ warning_stack # <<>>
    /\ buffering \in BOOLEAN /\ warn_list \in Seq(Message)
    /\ errhold_stack \in Seq(Seq(Message))
    /\ popped \in {0, WARNING, NONFATAL}
    /\ written \in Seq(Message)
    /\ reported \in Seq(Message)
    /\ dropped \subseteq Nat /\ pushedAt \in Seq(Nat)

ErrorShown == \E i \in DOMAIN written : written[i].type >= NONFATAL

(* The verdict and the messages agree: whoever is shown an error gets no   *)
(* object file, and whoever gets none is shown an error (erropt.worst and  *)
(* what nasm_issue_error writes, over all passes).                         *)
VerdictIsExplained ==
    /\ worst >= NONFATAL => ErrorShown
    /\ outcome = "ok" => ~ErrorShown
    /\ outcome \in {"failed", "died"} => ErrorShown

(* A program is read many times, but its messages come from one reading,   *)
(* the last: no warning is shown once per pass (the buffer of              *)
(* error_pass_start and error_pass_end).                                   *)
OnePassSpeaks ==
    \A i \in DOMAIN written : written[i].pass = pass

(* Messages are shown in the order in which they were reported, through    *)
(* hold lists, their commitment to the level above, and the buffer.        *)
ShownInOrder ==
    \A i, j \in DOMAIN written : i < j => written[i].id <= written[j].id

(* The lines that list macros follow the message they belong to, through   *)
(* holds and the buffer (pp_error_list_macros at the end of nasm_verror).  *)
Tidy(messages) ==
    \A i \in DOMAIN messages :
        messages[i].listmacro =>
            i > 1 /\ messages[i-1] = [messages[i] EXCEPT !.listmacro = FALSE]

MacrosFollowTheirMessage == Tidy(written)

(* What a hold threw away is never shown (nasm_error_hold_pop, whose lists *)
(* move up a level when an outer hold takes over), and nothing else is     *)
(* swallowed: once a pass that was the last is over, what was reported in  *)
(* it has been shown (the buffer freed by error_pass_end, the lists of the *)
(* hold stack).                                                            *)
ShownUnlessDropped ==
    /\ \A i \in DOMAIN written : written[i].id \notin dropped
    /\ stage # "reading" /\ outcome # "died"
           /\ (final \/ terminate_after_phase) =>
         \A id \in DOMAIN reported :
             \/ reported[id].pass # pass
             \/ id \in dropped
             \/ \E i \in DOMAIN written : written[i].id = id

(* A message that is to be skipped once there are errors is not shown      *)
(* after one that counts (erropt.never, set in nasm_issue_error).          *)
NoUndeadAfterErrors ==
    \A i, j \in DOMAIN written :
        i < j /\ written[i].type = NONFATAL /\ "hold" \notin written[i].flags
            => "undead" \notin written[j].flags

(* Every pass starts with the warnings of the command line, with nothing   *)
(* on the stack, and without a buffer, as error_pass_start asserts.        *)
PassesStartAlike ==
    /\ warning_stack[1] = cmdline
    /\ stage \in {"between", "cleanup"} =>
           warning_state = cmdline /\ Len(warning_stack) = 1 /\ ~buffering

(* calcsize_speculative learns from the return value of Drop whether the   *)
(* attempt had an error: exactly if one was reported since, at any level   *)
(* of holds, that no attempt inside dropped.                               *)
SpeculationSeesErrors ==
    [][Drop => (popped' >= NONFATAL <=>
                   \E id \in DOMAIN reported :
                       /\ id > Top(pushedAt) /\ id \notin dropped
                       /\ reported[id].type = NONFATAL)]_vars

(* [WARNING *class] restores the class to what the command line made it    *)
(* (doc/directiv.src:613).                                                 *)
ResetRestores ==
    [][\A name \in Names :
          set_warning_status(name, "reset", "enabled") =>
              \A c \in name : warning_state'[c] = cmdline[c]]_vars
-----------------------------------------------------------------------------
(* The inductive invariant behind VerdictIsExplained, OnePassSpeaks,       *)
(* MacrosFollowTheirMessage and PassesStartAlike.                          *)
OfThisPass(messages) ==
    \A i \in DOMAIN messages : messages[i].pass = pass

ListsInOrder ==
    /\ Tidy(written) /\ OfThisPass(written)
    /\ Tidy(warn_list) /\ OfThisPass(warn_list)
    /\ \A h \in DOMAIN errhold_stack :
          Tidy(errhold_stack[h]) /\ OfThisPass(errhold_stack[h])

(* What waits is not fatal, and whatever waits belongs to a pass.          *)
NothingFatalWaits ==
    /\ \A i \in DOMAIN warn_list : warn_list[i].type < FATAL
    /\ \A h \in DOMAIN errhold_stack : \A i \in DOMAIN errhold_stack[h] :
          errhold_stack[h][i].type < FATAL
    /\ ~buffering => warn_list = <<>>
    /\ stage \in {"between", "cleanup"} => errhold_stack = <<>>

(* Until an error counts, a pass that is not final shows nothing.          *)
SilentUntilError ==
    stage # "done" /\ ~final /\ ~terminate_after_phase =>
        /\ written = <<>>
        /\ stage # "cleanup"
        /\ stage = "reading" => buffering

ErrorsCount ==
    /\ stage # "done" <=> outcome = "running"
    /\ stage # "done" => (terminate_after_phase <=> ErrorShown)

ReportingInv ==
    /\ TypeOK
    /\ PassesStartAlike
    /\ ListsInOrder
    /\ NothingFatalWaits
    /\ SilentUntilError
    /\ ErrorsCount
    /\ VerdictIsExplained

-----------------------------------------------------------------------------
(* The inductive invariant behind ShownInOrder, ShownUnlessDropped,        *)
(* NoUndeadAfterErrors and SpeculationSeesErrors: it follows every message *)
(* through the lists.  A list holds messages as they were reported, in     *)
(* that order, and none that was dropped.                                  *)
AsReported(messages, log, gone) ==
    \A i \in DOMAIN messages :
        /\ messages[i].id \in DOMAIN log
        /\ messages[i].id \notin gone
        /\ log[messages[i].id] = [messages[i] EXCEPT !.listmacro = FALSE]

Ordered(messages) ==
    \A i, j \in DOMAIN messages : i < j => messages[i].id <= messages[j].id

(* All messages of a list were reported after, or before, the n-th.        *)
Since(messages, n) == \A i \in DOMAIN messages : n < messages[i].id
UpTo(messages, n) == \A i \in DOMAIN messages : messages[i].id <= n
Precedes(first, second) == \A i \in DOMAIN first : Since(second, first[i].id)

IsIn(id, messages) == \E i \in DOMAIN messages : messages[i].id = id

InPlace(shown, waiting, log, gone) ==
    /\ AsReported(shown, log, gone) /\ Ordered(shown)
    /\ AsReported(waiting, log, gone) /\ Ordered(waiting)
    /\ Precedes(shown, waiting)

MessagesKeepTheirPlace ==
    /\ dropped \subseteq DOMAIN reported
    /\ \A id \in DOMAIN reported : reported[id].id = id /\ reported[id].pass <= pass
    /\ InPlace(written, warn_list, reported, dropped)

(* Each hold has what was reported since it was pushed, except what an     *)
(* inner one has; the outer ones, what was shown and what is buffered are  *)
(* older.                                                                  *)
Partition(stack, pushes, log, gone) ==
    /\ Len(pushes) = Len(stack)
    /\ \A h \in 1 .. Len(stack) :
          /\ AsReported(stack[h], log, gone) /\ Ordered(stack[h])
          /\ pushes[h] <= Len(log)
          /\ Since(stack[h], pushes[h])
          /\ \A g \in 1 .. h - 1 : /\ UpTo(stack[g], pushes[h])
                                   /\ pushes[g] <= pushes[h]
          /\ \A id \in DOMAIN log :
                id > pushes[h] /\ id \notin gone =>
                    \E g \in h .. Len(stack) : IsIn(id, stack[g])

HoldsPartition ==
    stage # "done" =>
        /\ Partition(errhold_stack, pushedAt, reported, dropped)
        /\ \A h \in 1 .. Len(errhold_stack) :
              UpTo(written, pushedAt[h]) /\ UpTo(warn_list, pushedAt[h])

(* What was reported in this pass is somewhere; when the pass is over and  *)
(* was the last, it has been shown.                                        *)
IsSomewhere(id) ==
    \/ id \in dropped
    \/ IsIn(id, written) \/ IsIn(id, warn_list)
    \/ \E h \in 1 .. Len(errhold_stack) : IsIn(id, errhold_stack[h])

NothingIsLost ==
    /\ stage = "reading" =>
          \A id \in DOMAIN reported : reported[id].pass = pass => IsSomewhere(id)
    /\ stage # "reading" /\ outcome # "died" =>
          warn_list = <<>> /\ errhold_stack = <<>>
    /\ final => ~buffering
    /\ ShownUnlessDropped

(* While messages are buffered none was shown; the buffer has only what    *)
(* may wait.  The undead are never held, and an error that was shown       *)
(* silences them.                                                          *)
IsUndead(m) == "undead" \in m.flags
Silences(m) == m.type = NONFATAL /\ "hold" \notin m.flags
UndeadAreSilenced ==
    /\ buffering => written = <<>>
    /\ \A i \in DOMAIN warn_list : Bufferable(warn_list[i])
    /\ \A i \in DOMAIN written : Silences(written[i]) => "undead" \in never
    /\ NoUndeadAfterErrors
UndeadAreNotHeld ==
    \A h \in 1 .. Len(errhold_stack) : \A i \in DOMAIN errhold_stack[h] :
        ~IsUndead(errhold_stack[h][i])

HistoryInv ==
    /\ ReportingInv
    /\ MessagesKeepTheirPlace
    /\ HoldsPartition
    /\ NothingIsLost
    /\ UndeadAreSilenced /\ UndeadAreNotHeld

=============================================================================
