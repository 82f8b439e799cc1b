------------------------ MODULE ErrorReportingProofs ------------------------
(***************************************************************************)
(* What TLAPS proves of error reporting, for all warning classes, all      *)
(* command lines, all kinds of messages, and any number of messages,       *)
(* passes, holds and pushes.                                               *)
(***************************************************************************)
EXTENDS ErrorReporting, TLAPS, SequenceTheorems

-----------------------------------------------------------------------------
(* Severities and lists.                                                   *)

(* A set of severities has a highest one.                                  *)
LEMMA HighestOf ==
    ASSUME NEW S \in SUBSET {0, WARNING, NONFATAL}, S # {}
    PROVE  Highest(S) \in S /\ \A y \in S : y <= Highest(S)
  <1>1. \E x \in S : \A y \in S : y <= x
    <2>1. CASE NONFATAL \in S
      BY <2>1 DEF NONFATAL, WARNING
    <2>2. CASE NONFATAL \notin S /\ WARNING \in S
      BY <2>2 DEF NONFATAL, WARNING
    <2>3. CASE NONFATAL \notin S /\ WARNING \notin S
      <3>1. S = {0}
        BY <2>3
      <3> QED
        BY <3>1
    <2> QED
      BY <2>1, <2>2, <2>3
  <1> QED
    BY <1>1 DEF Highest

(* A list without its last element.                                        *)
LEMMA TopAndBelow ==
    ASSUME NEW S, NEW s \in Seq(S), s # <<>>
    PROVE  /\ Len(s) \in Nat \ {0}
           /\ Top(s) \in S /\ Top(s) = s[Len(s)]
           /\ Below(s) \in Seq(S)
           /\ Len(Below(s)) = Len(s) - 1
           /\ \A i \in 1 .. Len(s) - 1 : Below(s)[i] = s[i]
  <1>1. Len(s) \in Nat \ {0} /\ \A i \in 1 .. Len(s) : s[i] \in S
    BY EmptySeq, ElementOfSeq
  <1>2. /\ SubSeq(s, 1, Len(s) - 1) \in Seq(S)
        /\ Len(SubSeq(s, 1, Len(s) - 1)) = Len(s) - 1
        /\ \A i \in 1 .. Len(s) - 1 : SubSeq(s, 1, Len(s) - 1)[i] = s[i]
    <2>1. \A i \in 1 .. Len(s) - 1 : s[i] \in S
      BY <1>1
    <2>2. Len(s) - 1 \in Int /\ 1 \in Int
      BY <1>1
    <2>3. /\ SubSeq(s, 1, Len(s) - 1) \in Seq(S)
          /\ Len(SubSeq(s, 1, Len(s) - 1)) =
                 IF 1 <= Len(s) - 1 THEN Len(s) - 1 - 1 + 1 ELSE 0
          /\ \A i \in 1 .. Len(s) - 1 - 1 + 1 :
                 SubSeq(s, 1, Len(s) - 1)[i] = s[1 + i - 1]
      BY <2>1, <2>2, SubSeqProperties
    <2>4. Len(SubSeq(s, 1, Len(s) - 1)) = Len(s) - 1
      <3>1. \A n \in Nat \ {0} :
               (IF 1 <= n - 1 THEN n - 1 - 1 + 1 ELSE 0) = n - 1
        OBVIOUS
      <3> QED
        BY <2>3, <1>1, <3>1
    <2>5. ASSUME NEW i \in 1 .. Len(s) - 1
          PROVE  SubSeq(s, 1, Len(s) - 1)[i] = s[i]
      <3>1. i \in 1 .. Len(s) - 1 - 1 + 1 /\ 1 + i - 1 = i
        BY <1>1
      <3> QED
        BY <2>3, <3>1
    <2> QED
      BY <2>3, <2>4, <2>5
  <1> QED
    BY <1>1, <1>2 DEF Top, Below

(* What is in one list after the other.                                    *)
LEMMA Joined ==
    ASSUME NEW S, NEW s \in Seq(S), NEW t \in Seq(S)
    PROVE  /\ s \o t \in Seq(S)
           /\ Len(s) \in Nat /\ Len(t) \in Nat
           /\ DOMAIN s = 1 .. Len(s) /\ DOMAIN t = 1 .. Len(t)
           /\ DOMAIN (s \o t) = 1 .. Len(s) + Len(t)
           /\ \A i \in 1 .. Len(s) : (s \o t)[i] = s[i]
           /\ \A i \in Len(s) + 1 .. Len(s) + Len(t) : (s \o t)[i] = t[i - Len(s)]
           /\ \A i \in 1 .. Len(t) : (s \o t)[Len(s) + i] = t[i]
  <1>1. /\ s \o t \in Seq(S)
        /\ Len(s \o t) = Len(s) + Len(t)
        /\ \A i \in 1 .. Len(s) + Len(t) :
              (s \o t)[i] = IF i <= Len(s) THEN s[i] ELSE t[i - Len(s)]
    BY ConcatProperties
  <1>2. Len(s) \in Nat /\ Len(t) \in Nat
    BY LenProperties
  <1>3. DOMAIN s = 1 .. Len(s) /\ DOMAIN t = 1 .. Len(t)
    BY LenProperties
  <1>4. DOMAIN (s \o t) = 1 .. Len(s) + Len(t)
    BY <1>1, LenProperties
  <1>5. \A i \in 1 .. Len(t) : (s \o t)[Len(s) + i] = t[i]
    BY <1>1, <1>2
  <1> QED
    BY <1>1, <1>2, <1>3, <1>4, <1>5

(* The empty list and the lists a message makes are tidy, and tidy lists   *)
(* stay so when they are joined.                                           *)
LEMMA TidyJoined ==
    ASSUME NEW s \in Seq(Message), NEW t \in Seq(Message), Tidy(s), Tidy(t)
    PROVE  Tidy(s \o t)
  <1> SUFFICES ASSUME NEW i \in DOMAIN (s \o t), (s \o t)[i].listmacro
               PROVE  i > 1 /\ (s \o t)[i-1] =
                                 [(s \o t)[i] EXCEPT !.listmacro = FALSE]
    BY DEF Tidy
  <1>1. CASE i <= Len(s)
    <2>1. i \in DOMAIN s /\ (s \o t)[i] = s[i]
      BY <1>1, Joined
    <2>2. i > 1 /\ s[i-1] = [s[i] EXCEPT !.listmacro = FALSE]
      BY <2>1 DEF Tidy
    <2>3. (s \o t)[i-1] = s[i-1]
      BY <1>1, <2>1, <2>2, Joined
    <2> QED
      BY <2>1, <2>2, <2>3
  <1>2. CASE ~(i <= Len(s))
    <2>1. i - Len(s) \in DOMAIN t /\ (s \o t)[i] = t[i - Len(s)]
      BY <1>2, Joined
    <2>2. /\ i - Len(s) > 1
          /\ t[(i - Len(s)) - 1] = [t[i - Len(s)] EXCEPT !.listmacro = FALSE]
      BY <2>1 DEF Tidy
    <2>3. (s \o t)[i-1] = t[(i - 1) - Len(s)] /\ (i - 1) - Len(s) = (i - Len(s)) - 1
      BY <1>2, <2>1, <2>2, Joined
    <2> QED
      BY <1>2, <2>1, <2>2, <2>3, Joined
  <1> QED
    BY <1>1, <1>2

(* Joining keeps what holds of every element.                              *)
LEMMA ElementsJoined ==
    ASSUME NEW s \in Seq(Message), NEW t \in Seq(Message)
    PROVE  /\ OfThisPass(s) /\ OfThisPass(t) => OfThisPass(s \o t)
           /\ \A i \in DOMAIN (s \o t) :
                 \/ \E j \in DOMAIN s : (s \o t)[i] = s[j]
                 \/ \E j \in DOMAIN t : (s \o t)[i] = t[j]
           /\ \A j \in DOMAIN s : \E i \in DOMAIN (s \o t) : (s \o t)[i] = s[j]
           /\ \A j \in DOMAIN t : \E i \in DOMAIN (s \o t) : (s \o t)[i] = t[j]
  <1>1. \A i \in DOMAIN (s \o t) :
           \/ i \in DOMAIN s /\ (s \o t)[i] = s[i]
           \/ i - Len(s) \in DOMAIN t /\ (s \o t)[i] = t[i - Len(s)]
    BY Joined
  <1>2. \A j \in DOMAIN s : j \in DOMAIN (s \o t) /\ (s \o t)[j] = s[j]
    BY Joined
  <1>3. \A j \in DOMAIN t :
           Len(s) + j \in DOMAIN (s \o t) /\ (s \o t)[Len(s) + j] = t[j]
    BY Joined
  <1>4. OfThisPass(s) /\ OfThisPass(t) => OfThisPass(s \o t)
    BY <1>1 DEF OfThisPass
  <1> QED
    BY <1>1, <1>2, <1>3, <1>4
-----------------------------------------------------------------------------
(* Issuing messages.                                                       *)

(* What counts is severities, and what Issue leaves is well-typed.         *)
LEMMA IssueTypes ==
    ASSUME TypeOK, NEW messages \in Seq(Message), Issue(messages)
    PROVE  /\ Counted(messages) \subseteq Severities
           /\ buffering' \in BOOLEAN
           /\ warn_list' \in Seq(Message)
           /\ written' \in Seq(Message)
           /\ worst' \in {0, WARNING, NONFATAL}
           /\ worst <= worst'
           /\ NONFATAL \in Counted(messages) => worst' = NONFATAL
           /\ worst' = worst \/ worst' \in Counted(messages)
           /\ never' \subseteq Flags
  <1>1. \A i \in DOMAIN messages : messages[i].type \in Severities
    <2>1. \A i \in DOMAIN messages : messages[i] \in Message
      BY ElementOfSeq, LenProperties
    <2> QED
      BY <2>1 DEF Message
  <1>2. Counted(messages) \subseteq Severities
    BY <1>1 DEF Counted
  <1> DEFINE S == {worst} \cup (Counted(messages) \ {FATAL})
  <1>3. S \in SUBSET {0, WARNING, NONFATAL} /\ S # {}
    BY <1>2 DEF TypeOK, Severities
  <1>4. Highest(S) \in S /\ \A y \in S : y <= Highest(S)
    BY <1>3, HighestOf
  <1>5. worst' = Highest(S)
    BY DEF Issue
  <1> HIDE DEF S
  <1>6. worst' \in S /\ \A y \in S : y <= worst'
    BY <1>4, <1>5
  <1>7. /\ worst' \in {0, WARNING, NONFATAL}
        /\ worst <= worst'
        /\ NONFATAL \in Counted(messages) => worst' = NONFATAL
        /\ worst' = worst \/ worst' \in Counted(messages)
    <2>1. worst \in S /\ (NONFATAL \in Counted(messages) => NONFATAL \in S)
      BY DEF S, NONFATAL, FATAL
    <2>2. worst' = worst \/ worst' \in Counted(messages)
      BY <1>6 DEF S
    <2>3. worst' \in {0, WARNING, NONFATAL} /\ worst <= worst'
      BY <1>3, <1>6, <2>1
    <2>4. NONFATAL \in S => worst' = NONFATAL
      BY <1>6, <2>3 DEF WARNING, NONFATAL
    <2> QED
      BY <2>1, <2>2, <2>3, <2>4
  <1>8. /\ warn_list \in Seq(Message) /\ written \in Seq(Message)
        /\ warn_list \o messages \in Seq(Message)
        /\ written \o (warn_list \o messages) \in Seq(Message)
        /\ <<>> \in Seq(Message)
    BY Joined, EmptySeq DEF TypeOK
  <1>9. warn_list' \in Seq(Message) /\ written' \in Seq(Message)
    BY <1>8 DEF Issue, Flushed
  <1>10. buffering' \in BOOLEAN /\ never' \subseteq Flags
    BY DEF TypeOK, Issue, NeverAfter, Flags
  <1> QED
    BY <1>2, <1>7, <1>9, <1>10

(* An error in a tidy list that brings out the buffer counts.              *)
LEMMA ErrorCounts ==
    ASSUME NEW messages \in Seq(Message), Tidy(messages),
           NEW i \in DOMAIN messages, messages[i].type = NONFATAL,
           ~buffering \/ ~Bufferable(messages[i])
    PROVE  NONFATAL \in Counted(messages)
  <1>1. CASE ~messages[i].listmacro
    <2>1. i \in 1 .. i
      BY LenProperties
    <2> QED
      BY <1>1, <2>1 DEF Counted
  <1>2. CASE messages[i].listmacro
    <2>1. i > 1 /\ messages[i-1] = [messages[i] EXCEPT !.listmacro = FALSE]
      BY <1>2 DEF Tidy
    <2>2. i - 1 \in DOMAIN messages /\ i - 1 \in 1 .. (i - 1)
      BY <2>1, LenProperties
    <2>3. messages[i] \in Message
      BY ElementOfSeq, LenProperties
    <2>4. /\ messages[i-1].type = NONFATAL /\ ~messages[i-1].listmacro
          /\ messages[i-1].flags = messages[i].flags
      BY <2>1, <2>3 DEF Message
    <2>5. ~buffering \/ ~Bufferable(messages[i-1])
      BY <2>4 DEF Bufferable
    <2> QED
      BY <2>2, <2>4, <2>5 DEF Counted
  <1> QED
    BY <1>1, <1>2

(* What Issue does to the parts of the invariant about the buffer and      *)
(* about what was written.                                                 *)
LEMMA IssueInv ==
    ASSUME TypeOK, Tidy(written), OfThisPass(written),
           Tidy(warn_list), OfThisPass(warn_list),
           \A i \in DOMAIN warn_list : warn_list[i].type < FATAL,
           ~buffering => warn_list = <<>>,
           terminate_after_phase <=> ErrorShown,
           NEW messages \in Seq(Message), Tidy(messages), OfThisPass(messages),
           \A i \in DOMAIN messages :
               messages[i].type = FATAL => ~Bufferable(messages[i]),
           Issue(messages), pass' = pass
    PROVE  /\ Tidy(written') /\ OfThisPass(written)'
           /\ Tidy(warn_list') /\ OfThisPass(warn_list)'
           /\ \A i \in DOMAIN warn_list' : warn_list'[i].type < FATAL
           /\ ~buffering' => warn_list' = <<>>
           /\ (\A i \in DOMAIN messages : messages[i].type < FATAL) =>
                  /\ terminate_after_phase' <=> ErrorShown'
                  /\ buffering /\ written = <<>> /\ ~terminate_after_phase'
                        => written' = <<>> /\ buffering'
           /\ (\E i \in DOMAIN messages : messages[i].type = FATAL) => ErrorShown'
           /\ ErrorShown => ErrorShown'
  <1> DEFINE kept == buffering /\ \A i \in DOMAIN messages : Bufferable(messages[i])
  <1>1. /\ warn_list \in Seq(Message) /\ written \in Seq(Message)
        /\ worst \in {0, WARNING, NONFATAL} /\ buffering \in BOOLEAN
    BY DEF TypeOK
  <1>2. \A i \in DOMAIN messages :
           messages[i] \in Message /\ messages[i].type \in Severities
    <2>1. \A i \in DOMAIN messages : messages[i] \in Message
      BY ElementOfSeq, LenProperties
    <2> QED
      BY <2>1 DEF Message
  <1>3. CASE kept
    <2>1. /\ buffering' = TRUE /\ warn_list' = warn_list \o messages
          /\ written' = written
      BY <1>1, <1>3 DEF Issue
    <2>2. NONFATAL \notin Counted(messages) /\ Counted(messages) = {}
      BY <1>3 DEF Counted
    <2>3. worst' = worst
      BY <2>2, IssueTypes
    <2>4. \A i \in DOMAIN messages : messages[i].type < FATAL
      BY <1>2, <1>3 DEF Severities, WARNING, NONFATAL, FATAL
    <2>5. \A i \in DOMAIN warn_list' : warn_list'[i].type < FATAL
      BY <1>1, <2>1, <2>4, ElementsJoined
    <2>6. Tidy(warn_list') /\ OfThisPass(warn_list')
      BY <1>1, <2>1, TidyJoined, ElementsJoined
    <2>7. OfThisPass(written)' /\ OfThisPass(warn_list)'
      BY <2>1, <2>6 DEF OfThisPass
    <2>8. (terminate_after_phase' <=> ErrorShown') /\ (ErrorShown => ErrorShown')
      BY <2>1, <2>3 DEF ErrorShown, terminate_after_phase
    <2>9. ~ \E i \in DOMAIN messages : messages[i].type = FATAL
      BY <2>4 DEF FATAL
    <2> QED
      BY <2>1, <2>5, <2>6, <2>7, <2>8, <2>9
  <1>4. CASE ~kept
    <2> DEFINE more == warn_list \o messages
    <2>1. /\ buffering' = FALSE /\ warn_list' = <<>>
          /\ written' = written \o more
      BY <1>1, <1>4 DEF Issue, Flushed
    <2>2. more \in Seq(Message) /\ Tidy(more) /\ OfThisPass(more)
      BY <1>1, Joined, TidyJoined, ElementsJoined
    <2> HIDE DEF more
    <2>3. written' \in Seq(Message) /\ Tidy(written') /\ OfThisPass(written')
      BY <1>1, <2>1, <2>2, Joined, TidyJoined, ElementsJoined
    <2>4. DOMAIN warn_list' = {}
      BY <2>1
    <2>5. Tidy(warn_list') /\ OfThisPass(warn_list')
      BY <2>4 DEF Tidy, OfThisPass
    <2>6. ErrorShown' <=>
             \/ ErrorShown
             \/ \E i \in DOMAIN warn_list : warn_list[i].type >= NONFATAL
             \/ \E i \in DOMAIN messages : messages[i].type >= NONFATAL
      <3>1. ErrorShown' <=>
               ErrorShown \/ \E i \in DOMAIN more : more[i].type >= NONFATAL
        <4>1. /\ \A i \in DOMAIN (written \o more) :
                    \/ \E j \in DOMAIN written : (written \o more)[i] = written[j]
                    \/ \E j \in DOMAIN more : (written \o more)[i] = more[j]
              /\ \A j \in DOMAIN written :
                    \E i \in DOMAIN (written \o more) : (written \o more)[i] = written[j]
              /\ \A j \in DOMAIN more :
                    \E i \in DOMAIN (written \o more) : (written \o more)[i] = more[j]
          BY <1>1, <2>2, ElementsJoined
        <4>2. ErrorShown' <=> \E i \in DOMAIN (written \o more) :
                                 (written \o more)[i].type >= NONFATAL
          BY <2>1 DEF ErrorShown
        <4> QED
          BY <4>1, <4>2, Zenon DEF ErrorShown
      <3>2. (\E i \in DOMAIN more : more[i].type >= NONFATAL) <=>
               \/ \E i \in DOMAIN warn_list : warn_list[i].type >= NONFATAL
               \/ \E i \in DOMAIN messages : messages[i].type >= NONFATAL
        <4>1. /\ \A i \in DOMAIN more :
                    \/ \E j \in DOMAIN warn_list : more[i] = warn_list[j]
                    \/ \E j \in DOMAIN messages : more[i] = messages[j]
              /\ \A j \in DOMAIN warn_list :
                    \E i \in DOMAIN more : more[i] = warn_list[j]
              /\ \A j \in DOMAIN messages :
                    \E i \in DOMAIN more : more[i] = messages[j]
          BY <1>1, ElementsJoined DEF more
        <4> QED
          BY <4>1, Zenon
      <3> QED
        BY <3>1, <3>2
    <2>7. ASSUME \A i \in DOMAIN messages : messages[i].type < FATAL
          PROVE  /\ terminate_after_phase' <=> ErrorShown'
                 /\ ~(buffering /\ ~terminate_after_phase')
      <3>1. \A i \in DOMAIN messages :
               messages[i].type >= NONFATAL <=> messages[i].type = NONFATAL
        <4> SUFFICES ASSUME NEW i \in DOMAIN messages
                     PROVE  messages[i].type >= NONFATAL <=> messages[i].type = NONFATAL
          OBVIOUS
        <4>1. messages[i].type \in Severities /\ messages[i].type < FATAL
          BY <1>2, <2>7
        <4> QED
          BY ONLY <4>1 DEF Severities, WARNING, NONFATAL, FATAL
      <3>2. terminate_after_phase' =>
               terminate_after_phase \/ NONFATAL \in Counted(messages)
        <4>1. worst' = worst \/ worst' \in Counted(messages)
          BY <1>1, IssueTypes, Zenon
        <4>2. worst' \in {0, WARNING, NONFATAL}
          BY <1>1, IssueTypes, Zenon
        <4>3. worst' >= NONFATAL => worst' = NONFATAL
          BY ONLY <4>2 DEF WARNING, NONFATAL
        <4> QED
          BY ONLY <4>1, <4>3 DEF terminate_after_phase
      <3>3. NONFATAL \in Counted(messages) =>
               \E i \in DOMAIN messages : messages[i].type = NONFATAL
        BY DEF Counted
      <3>4. terminate_after_phase => terminate_after_phase'
        BY <1>1, IssueTypes DEF terminate_after_phase, WARNING, NONFATAL
      <3>5. NONFATAL \in Counted(messages) => terminate_after_phase'
        BY IssueTypes DEF terminate_after_phase, NONFATAL
      <3>6. CASE buffering
        <4>1. PICK i \in DOMAIN messages : ~Bufferable(messages[i])
          BY <1>4, <3>6
        <4>2. messages[i].type = NONFATAL
          BY <1>2, <2>7, <4>1 DEF Bufferable, Severities, WARNING, NONFATAL, FATAL
        <4>3. NONFATAL \in Counted(messages)
          BY <4>1, <4>2, ErrorCounts
        <4> QED
          BY <2>6, <3>1, <3>3, <3>5, <4>3
      <3>7. CASE ~buffering
        <4>1. (\E i \in DOMAIN messages : messages[i].type = NONFATAL)
                 => NONFATAL \in Counted(messages)
          BY <3>7, ErrorCounts
        <4>2. ~ \E i \in DOMAIN warn_list : warn_list[i].type >= NONFATAL
          BY <3>7
        <4> QED
          BY <2>6, <3>1, <3>2, <3>3, <3>4, <3>5, <3>7, <4>1, <4>2
      <3> QED
        BY <3>6, <3>7
    <2>8. (\E i \in DOMAIN messages : messages[i].type = FATAL) => ErrorShown'
      BY <2>6 DEF NONFATAL, FATAL
    <2>9. OfThisPass(written)' /\ OfThisPass(warn_list)'
      BY <2>3, <2>5 DEF OfThisPass
    <2> QED
      BY <2>1, <2>3, <2>4, <2>5, <2>6, <2>7, <2>8, <2>9
  <1> QED
    BY <1>3, <1>4

-----------------------------------------------------------------------------
(* The invariant in parts: what the warnings have no share in, and types.  *)
MessageInv ==
    /\ ListsInOrder
    /\ NothingFatalWaits
    /\ SilentUntilError
    /\ ErrorsCount
    /\ VerdictIsExplained

MessageTypes ==
    /\ stage \in {"between", "reading", "cleanup", "done"}
    /\ outcome \in {"running", "ok", "failed", "died"}
    /\ worst \in {0, WARNING, NONFATAL} /\ never \subseteq Flags
    /\ buffering \in BOOLEAN /\ warn_list \in Seq(Message)
    /\ errhold_stack \in Seq(Seq(Message))
    /\ written \in Seq(Message)
    /\ reported \in Seq(Message)

WarningTypes ==
    /\ warning_state \in WarningStates /\ cmdline \in WarningStates
    /\ warning_stack \in Seq(WarningStates) /\ warning_stack # <<>>

OtherTypes ==
    /\ pass \in Nat /\ final \in BOOLEAN
    /\ popped \in {0, WARNING, NONFATAL}
    /\ dropped \subseteq Nat /\ pushedAt \in Seq(Nat)

LEMMA Parts ==
    /\ TypeOK <=> MessageTypes /\ WarningTypes /\ OtherTypes
    /\ ReportingInv <=> TypeOK /\ PassesStartAlike /\ MessageInv
  BY DEF TypeOK, MessageTypes, WarningTypes, OtherTypes, ReportingInv, MessageInv

(* Steps that touch no message keep what is known of them.                 *)
LEMMA MessagesUntouched ==
    ASSUME MessageInv, MessageTypes,
           UNCHANGED <<stage, outcome, pass, final, bufferVars, errhold_stack>>
    PROVE  MessageInv' /\ (reported' \in Seq(Message) => MessageTypes')
  <1>1. ListsInOrder'
    BY DEF MessageInv, ListsInOrder, OfThisPass, bufferVars
  <1>2. NothingFatalWaits' /\ SilentUntilError'
    BY DEF MessageInv, NothingFatalWaits, SilentUntilError, bufferVars,
           terminate_after_phase
  <1>3. ErrorsCount' /\ VerdictIsExplained'
    BY DEF MessageInv, ErrorsCount, VerdictIsExplained, ErrorShown, bufferVars,
           terminate_after_phase
  <1>4. reported' \in Seq(Message) => MessageTypes'
    BY DEF MessageTypes, bufferVars
  <1> QED
    BY <1>1, <1>2, <1>3, <1>4 DEF MessageInv

(* The lines of a message.                                                 *)
LEMMA LinesOf ==
    ASSUME NEW m \in Message, ~m.listmacro, m.pass = pass,
           NEW held \in BOOLEAN, NEW inMacro \in BOOLEAN
    PROVE  /\ Lines(m, held, inMacro) \in Seq(Message)
           /\ Tidy(Lines(m, held, inMacro))
           /\ OfThisPass(Lines(m, held, inMacro))
           /\ \A i \in DOMAIN Lines(m, held, inMacro) :
                 /\ Lines(m, held, inMacro)[i].type = m.type
                 /\ Lines(m, held, inMacro)[i].flags = m.flags
           /\ \E i \in DOMAIN Lines(m, held, inMacro) :
                 Lines(m, held, inMacro)[i] = m
  <1> DEFINE n == [m EXCEPT !.listmacro = TRUE]
  <1>1. /\ n \in Message /\ n.type = m.type /\ n.flags = m.flags
        /\ n.pass = pass /\ n.listmacro /\ m = [n EXCEPT !.listmacro = FALSE]
    BY DEF Message
  <1> HIDE DEF n
  <1>2. Lines(m, held, inMacro) = <<m>> \/ Lines(m, held, inMacro) = <<m, n>>
    BY DEF Lines, n
  <1>3. CASE Lines(m, held, inMacro) = <<m>>
    <2>1. <<m>> \in Seq(Message) /\ DOMAIN <<m>> = {1} /\ <<m>>[1] = m
      OBVIOUS
    <2> QED
      BY <1>3, <2>1 DEF Tidy, OfThisPass
  <1>4. CASE Lines(m, held, inMacro) = <<m, n>>
    <2>1. /\ <<m, n>> \in Seq(Message) /\ DOMAIN <<m, n>> = {1, 2}
          /\ <<m, n>>[1] = m /\ <<m, n>>[2] = n
      BY <1>1
    <2>2. Tidy(<<m, n>>)
      <3>1. ASSUME NEW i \in {1, 2}, <<m, n>>[i].listmacro
            PROVE  i > 1 /\ <<m, n>>[i-1] = [<<m, n>>[i] EXCEPT !.listmacro = FALSE]
        <4>1. i = 2
          BY <2>1, <3>1
        <4>2. i - 1 = 1
          BY <4>1
        <4>3. <<m, n>>[i] = n /\ <<m, n>>[i - 1] = m
          BY <2>1, <4>1, <4>2
        <4> QED
          BY <1>1, <4>1, <4>3
      <3> QED
        BY <2>1, <3>1 DEF Tidy
    <2>3. OfThisPass(<<m, n>>)
      BY <1>1, <2>1 DEF OfThisPass
    <2>4. \A i \in {1, 2} : <<m, n>>[i].type = m.type /\ <<m, n>>[i].flags = m.flags
      BY <1>1, <2>1
    <2> QED
      BY <1>4, <2>1, <2>2, <2>3, <2>4
  <1> QED
    BY <1>2, <1>3, <1>4

(* Replacing the list on top of the hold stack.                            *)
LEMMA TopReplaced ==
    ASSUME NEW s \in Seq(Seq(Message)), s # <<>>, NEW list \in Seq(Message)
    PROVE  /\ Append(Below(s), list) \in Seq(Seq(Message))
           /\ DOMAIN Append(Below(s), list) = DOMAIN s
           /\ \A h \in DOMAIN s :
                 \/ Append(Below(s), list)[h] = s[h]
                 \/ Append(Below(s), list)[h] = list
           /\ Top(s) \in Seq(Message)
           /\ \E h \in DOMAIN s : Top(s) = s[h]
  <1>1. /\ Len(s) \in Nat \ {0} /\ Top(s) \in Seq(Message) /\ Top(s) = s[Len(s)]
        /\ Below(s) \in Seq(Seq(Message)) /\ Len(Below(s)) = Len(s) - 1
        /\ \A h \in 1 .. Len(s) - 1 : Below(s)[h] = s[h]
    BY TopAndBelow
  <1>2. /\ Append(Below(s), list) \in Seq(Seq(Message))
        /\ Len(Append(Below(s), list)) = Len(Below(s)) + 1
        /\ \A h \in 1 .. Len(Below(s)) : Append(Below(s), list)[h] = Below(s)[h]
        /\ Append(Below(s), list)[Len(Below(s)) + 1] = list
    BY <1>1, AppendProperties
  <1>3. DOMAIN s = 1 .. Len(s) /\ DOMAIN Append(Below(s), list) = 1 .. Len(s)
    BY <1>1, <1>2, LenProperties
  <1>4. ASSUME NEW h \in DOMAIN s
        PROVE  Append(Below(s), list)[h] = s[h] \/ Append(Below(s), list)[h] = list
    <2>1. CASE h \in 1 .. Len(s) - 1
      BY <1>1, <1>2, <2>1
    <2>2. CASE h = Len(s)
      BY <1>1, <1>2, <2>2
    <2> QED
      BY <1>1, <1>3, <2>1, <2>2
  <1>5. Len(s) \in DOMAIN s
    BY <1>1, <1>3
  <1> QED
    BY <1>1, <1>2, <1>3, <1>4, <1>5

(* A list of messages that may wait in a hold.                             *)
Waits(list) ==
    /\ list \in Seq(Message) /\ Tidy(list) /\ OfThisPass(list)
    /\ \A i \in DOMAIN list : list[i].type < FATAL

LEMMA WaitsJoined ==
    ASSUME NEW s, NEW t, Waits(s), Waits(t)
    PROVE  Waits(s \o t)
  <1>1. s \in Seq(Message) /\ t \in Seq(Message)
    BY DEF Waits
  <1>2. s \o t \in Seq(Message) /\ Tidy(s \o t) /\ OfThisPass(s \o t)
    BY <1>1, Joined, TidyJoined, ElementsJoined DEF Waits
  <1>3. \A i \in DOMAIN (s \o t) :
           \/ \E j \in DOMAIN s : (s \o t)[i] = s[j]
           \/ \E j \in DOMAIN t : (s \o t)[i] = t[j]
    BY <1>1, ElementsJoined
  <1>4. \A i \in DOMAIN (s \o t) : (s \o t)[i].type < FATAL
    BY <1>3 DEF Waits
  <1> QED
    BY <1>2, <1>4 DEF Waits

(* Every list of the hold stack waits.                                     *)
LEMMA HeldWaits ==
    ASSUME MessageInv, MessageTypes
    PROVE  \A h \in DOMAIN errhold_stack : Waits(errhold_stack[h])
  <1>1. \A h \in DOMAIN errhold_stack : errhold_stack[h] \in Seq(Message)
    BY ElementOfSeq, LenProperties DEF MessageTypes
  <1> QED
    BY <1>1 DEF Waits, MessageInv, ListsInOrder, NothingFatalWaits

(* While a program is read, lists that wait may come and go in holds.      *)
LEMMA HoldsChanged ==
    ASSUME MessageInv, MessageTypes, stage = "reading",
           UNCHANGED <<stage, outcome, pass, final, bufferVars>>,
           reported' \in Seq(Message), errhold_stack' \in Seq(Seq(Message)),
           \A h \in DOMAIN errhold_stack' : Waits(errhold_stack'[h])
    PROVE  MessageTypes' /\ MessageInv'
  <1>1. UNCHANGED <<stage, outcome, worst, never, buffering, warn_list, written>>
    BY DEF bufferVars
  <1>2. MessageTypes'
    BY <1>1 DEF MessageTypes
  <1>3. ListsInOrder'
    BY <1>1 DEF MessageInv, ListsInOrder, OfThisPass, Waits
  <1>4. NothingFatalWaits'
    BY <1>1 DEF MessageInv, NothingFatalWaits, Waits
  <1>5. SilentUntilError' /\ ErrorsCount' /\ VerdictIsExplained'
    BY <1>1 DEF MessageInv, SilentUntilError, ErrorsCount, ErrorShown,
                VerdictIsExplained, terminate_after_phase
  <1> QED
    BY <1>2, <1>3, <1>4, <1>5 DEF MessageInv

(* A message that is reported, suppressed or not, held or not.             *)
LEMMA VerrorInv ==
    ASSUME ReportingInv, stage \in {"reading", "cleanup"},
           NEW state \in WarningStates, NEW k,
           k \in [severity : Severities, class : Classes, flags : SUBSET Flags],
           "hold" \in k.flags => k.severity = NONFATAL,
           NEW deadBranch \in BOOLEAN, NEW inMacro \in BOOLEAN,
           nasm_verror(state, k, deadBranch, inMacro),
           UNCHANGED <<pass, final>>
    PROVE  /\ MessageTypes' /\ MessageInv'
           /\ stage' \in {stage, "done"}
           /\ ~buffering => ~buffering'
  <1>1. /\ MessageTypes /\ WarningTypes /\ OtherTypes /\ MessageInv /\ TypeOK
        /\ PassesStartAlike
    BY Parts
  <1>2. CASE is_suppressed(state, k, deadBranch)
    <2>1. UNCHANGED <<stage, outcome, bufferVars, errhold_stack, reported>>
      BY <1>2 DEF nasm_verror
    <2>2. reported' \in Seq(Message)
      BY <1>1, <2>1 DEF MessageTypes
    <2> QED
      BY <1>1, <2>1, <2>2, MessagesUntouched DEF bufferVars
  <1>3. CASE ~is_suppressed(state, k, deadBranch)
    <2> DEFINE m == [id |-> Len(reported) + 1, type |-> true_error_type(state, k),
                     flags |-> k.flags, listmacro |-> FALSE, pass |-> pass]
    <2>1. true_error_type(state, k) \in Severities
      BY DEF true_error_type, Severities
    <2>2. Len(reported) \in Nat
      BY <1>1, LenProperties DEF MessageTypes
    <2>3. /\ m \in Message /\ ~m.listmacro /\ m.pass = pass
          /\ m.flags = k.flags /\ m.type \in Severities
          /\ m.type = FATAL => k.severity = FATAL
      BY <1>1, <2>1, <2>2
         DEF Message, OtherTypes, true_error_type, NONFATAL, FATAL
    <2>4. /\ reported' = Append(reported, m)
          /\ IF IsHeld(m)
             THEN /\ errhold_stack' = Append(Below(errhold_stack),
                                   Top(errhold_stack) \o Lines(m, TRUE, inMacro))
                  /\ UNCHANGED bufferVars
             ELSE /\ Issue(Lines(m, FALSE, inMacro))
                  /\ UNCHANGED errhold_stack
          /\ IF m.type = FATAL
             THEN stage' = "done" /\ outcome' = "died"
             ELSE UNCHANGED <<stage, outcome>>
      BY <1>3 DEF nasm_verror
    <2> HIDE DEF m
    <2>5. reported' \in Seq(Message)
      BY <1>1, <2>3, <2>4, AppendProperties DEF MessageTypes
    <2>6. stage' \in {stage, "done"}
      BY <2>4
    <2>7. outcome = "running" /\ stage # "done"
      BY <1>1 DEF MessageInv, ErrorsCount
    <2>lines. \A held \in BOOLEAN :
              /\ Lines(m, held, inMacro) \in Seq(Message)
              /\ Tidy(Lines(m, held, inMacro)) /\ OfThisPass(Lines(m, held, inMacro))
              /\ \A i \in DOMAIN Lines(m, held, inMacro) :
                    /\ Lines(m, held, inMacro)[i].type = m.type
                    /\ Lines(m, held, inMacro)[i].flags = m.flags
              /\ \E i \in DOMAIN Lines(m, held, inMacro) : Lines(m, held, inMacro)[i] = m
      <3> TAKE held \in BOOLEAN
      <3>1. m \in Message /\ ~m.listmacro /\ m.pass = pass
        BY <2>3
      <3> QED
        BY <3>1, LinesOf
    <2>8. CASE IsHeld(m)
      <3> DEFINE top == Top(errhold_stack) \o Lines(m, TRUE, inMacro)
      <3>1. errhold_stack \in Seq(Seq(Message)) /\ errhold_stack # <<>>
        BY <1>1, <2>8 DEF MessageTypes, IsHeld
      <3>2. PICK h \in DOMAIN errhold_stack : Top(errhold_stack) = errhold_stack[h]
        BY <3>1, EmptySeq, TopReplaced
      <3>3. Waits(Top(errhold_stack))
        BY <1>1, <3>2, HeldWaits
      <3>4. m.type < FATAL /\ m.type # FATAL
        BY <2>3, <2>8 DEF IsHeld, Severities, WARNING, NONFATAL, FATAL
      <3>5. Waits(Lines(m, TRUE, inMacro))
        BY <2>lines, <3>4 DEF Waits
      <3>6. Waits(top)
        BY <3>3, <3>5, WaitsJoined
      <3> HIDE DEF top
      <3>7. errhold_stack' = Append(Below(errhold_stack), top)
        BY <2>4, <2>8 DEF top
      <3>8. /\ errhold_stack' \in Seq(Seq(Message))
            /\ \A j \in DOMAIN errhold_stack' : Waits(errhold_stack'[j])
        <4>1. top \in Seq(Message)
          BY <3>6 DEF Waits
        <4>2. /\ errhold_stack' \in Seq(Seq(Message))
              /\ DOMAIN errhold_stack' = DOMAIN errhold_stack
              /\ \A j \in DOMAIN errhold_stack :
                    errhold_stack'[j] = errhold_stack[j] \/ errhold_stack'[j] = top
          BY <3>1, <3>7, <4>1, TopReplaced
        <4>3. \A j \in DOMAIN errhold_stack : Waits(errhold_stack[j])
          BY <1>1, HeldWaits
        <4> QED
          BY <3>6, <4>2, <4>3
      <3>9. UNCHANGED <<stage, outcome, bufferVars>>
        BY <2>4, <2>8, <3>4
      <3>10. stage = "reading"
        BY <1>1, <3>1 DEF MessageInv, NothingFatalWaits
      <3> QED
        BY <1>1, <2>5, <3>8, <3>9, <3>10, HoldsChanged DEF bufferVars
    <2>9. CASE ~IsHeld(m)
      <3> DEFINE lines == Lines(m, FALSE, inMacro)
      <3>1. /\ lines \in Seq(Message) /\ Tidy(lines) /\ OfThisPass(lines)
            /\ \A i \in DOMAIN lines : lines[i].type = m.type /\ lines[i].flags = m.flags
            /\ \E i \in DOMAIN lines : lines[i] = m
        BY <2>lines
      <3> HIDE DEF lines
      <3>2. Issue(lines) /\ UNCHANGED errhold_stack
        BY <2>4, <2>9 DEF lines
      <3>3. \A i \in DOMAIN lines : lines[i].type = FATAL => ~Bufferable(lines[i])
        BY <2>3, <3>1 DEF Bufferable, NONFATAL, FATAL
      <3>4. /\ Tidy(written) /\ OfThisPass(written)
            /\ Tidy(warn_list) /\ OfThisPass(warn_list)
            /\ \A i \in DOMAIN warn_list : warn_list[i].type < FATAL
            /\ ~buffering => warn_list = <<>>
            /\ terminate_after_phase <=> ErrorShown
        BY <1>1, <2>7
           DEF MessageInv, ListsInOrder, NothingFatalWaits, ErrorsCount
      <3>5. /\ Tidy(written') /\ OfThisPass(written)'
            /\ Tidy(warn_list') /\ OfThisPass(warn_list)'
            /\ \A i \in DOMAIN warn_list' : warn_list'[i].type < FATAL
            /\ ~buffering' => warn_list' = <<>>
            /\ (\A i \in DOMAIN lines : lines[i].type < FATAL) =>
                   /\ terminate_after_phase' <=> ErrorShown'
                   /\ buffering /\ written = <<>> /\ ~terminate_after_phase'
                         => written' = <<>> /\ buffering'
            /\ (\E i \in DOMAIN lines : lines[i].type = FATAL) => ErrorShown'
            /\ ErrorShown => ErrorShown'
        BY <1>1, <3>1, <3>2, <3>3, <3>4, IssueInv
      <3>6. MessageTypes'
        <4>1. stage' \in {"between", "reading", "cleanup", "done"}
              /\ outcome' \in {"running", "ok", "failed", "died"}
          BY <1>1, <2>4 DEF MessageTypes
        <4> QED
          BY <1>1, <2>5, <3>1, <3>2, <4>1, IssueTypes DEF MessageTypes
      <3>7. ListsInOrder'
        BY <1>1, <3>2, <3>5 DEF MessageInv, ListsInOrder, OfThisPass
      <3>8. NothingFatalWaits'
        BY <1>1, <2>6, <3>2, <3>5 DEF MessageInv, NothingFatalWaits
      <3>9. ~buffering => ~buffering'
        BY <3>2 DEF Issue
      <3>10. CASE m.type = FATAL
        <4>1. stage' = "done" /\ outcome' = "died" /\ ErrorShown'
          BY <2>4, <3>1, <3>5, <3>10
        <4>2. SilentUntilError' /\ ErrorsCount' /\ VerdictIsExplained'
          BY <4>1 DEF SilentUntilError, ErrorsCount, VerdictIsExplained
        <4> QED
          BY <2>6, <3>6, <3>7, <3>8, <3>9, <4>2 DEF MessageInv
      <3>11. CASE m.type # FATAL
        <4>1. stage' = stage /\ outcome' = outcome
          BY <2>4, <3>11
        <4>2. \A i \in DOMAIN lines : lines[i].type < FATAL
          BY <2>3, <3>1, <3>11 DEF Severities, WARNING, NONFATAL, FATAL
        <4>3. terminate_after_phase' <=> ErrorShown'
          BY <3>5, <4>2
        <4>4. ErrorsCount' /\ VerdictIsExplained'
          BY <2>7, <4>1, <4>3
             DEF ErrorsCount, VerdictIsExplained, terminate_after_phase
        <4>5. SilentUntilError'
          BY <1>1, <2>7, <3>4, <3>5, <4>1, <4>2, <4>3 DEF MessageInv, SilentUntilError
        <4> QED
          BY <2>6, <3>6, <3>7, <3>8, <3>9, <4>4, <4>5 DEF MessageInv
      <3> QED
        BY <3>10, <3>11
    <2> QED
      BY <2>8, <2>9
  <1> QED
    BY <1>2, <1>3

-----------------------------------------------------------------------------
(* The steps.                                                              *)

LEMMA ReportingInit == Init => ReportingInv
  <1> SUFFICES ASSUME Init PROVE ReportingInv
    OBVIOUS
  <1>1. cmdline \in WarningStates
    BY ClassesAssumption DEF Init
  <1>2. <<cmdline>> \in Seq(WarningStates) /\ <<cmdline>> # <<>>
    BY <1>1
  <1>3. TypeOK
    BY <1>1, <1>2, EmptySeq DEF Init, TypeOK
  <1>4. PassesStartAlike
    BY DEF Init, PassesStartAlike
  <1>5. ListsInOrder /\ NothingFatalWaits
    BY DEF Init, ListsInOrder, NothingFatalWaits, Tidy, OfThisPass
  <1>6. SilentUntilError /\ ErrorsCount /\ VerdictIsExplained
    BY DEF Init, SilentUntilError, ErrorsCount, VerdictIsExplained, ErrorShown,
           terminate_after_phase, NONFATAL
  <1> QED
    BY <1>3, <1>4, <1>5, <1>6 DEF ReportingInv

LEMMA ReportingPasses ==
    ASSUME ReportingInv, BeginPass \/ EndPass \/ CleanUp \/ Finish
    PROVE  ReportingInv'
  <1>1. /\ MessageTypes /\ WarningTypes /\ OtherTypes /\ MessageInv /\ TypeOK
        /\ PassesStartAlike
    BY Parts
  <1>2. CASE BeginPass
    <2>1. /\ written = <<>> /\ warn_list = <<>> /\ errhold_stack = <<>>
          /\ outcome = "running" /\ worst < NONFATAL
      BY <1>1, <1>2 DEF BeginPass, MessageInv, SilentUntilError, ErrorsCount,
         NothingFatalWaits, PassesStartAlike, terminate_after_phase, MessageTypes,
         WARNING, NONFATAL
    <2>2. /\ written' = <<>> /\ warn_list' = <<>> /\ errhold_stack' = <<>>
          /\ outcome' = "running" /\ stage' = "reading" /\ worst' = 0
          /\ final' \in BOOLEAN /\ buffering' \in BOOLEAN
          /\ ~final' => buffering'
          /\ pass' \in Nat
      <3>1. pass' \in Nat
        BY <1>1, <1>2 DEF BeginPass, OtherTypes
      <3>2. final' \in BOOLEAN
        BY <1>2 DEF BeginPass
      <3>3. buffering' \in BOOLEAN /\ (~final' => buffering')
        BY <1>2, <3>2, Zenon DEF BeginPass
      <3> QED
        BY <1>2, <2>1, <3>1, <3>2, <3>3 DEF BeginPass
    <2>3. MessageTypes' /\ WarningTypes' /\ OtherTypes'
      BY <1>1, <1>2, <2>2, EmptySeq
         DEF BeginPass, MessageTypes, WarningTypes, OtherTypes, warningVars, Flags
    <2>4. PassesStartAlike'
      BY <1>1, <1>2, <2>2 DEF BeginPass, PassesStartAlike, warningVars
    <2>5. ListsInOrder' /\ NothingFatalWaits'
      BY <2>2 DEF ListsInOrder, NothingFatalWaits, Tidy, OfThisPass
    <2>6. SilentUntilError' /\ ErrorsCount' /\ VerdictIsExplained'
      BY <2>2 DEF SilentUntilError, ErrorsCount, VerdictIsExplained, ErrorShown,
                  terminate_after_phase, NONFATAL
    <2> QED
      BY <2>3, <2>4, <2>5, <2>6, Parts DEF ReportingInv, TypeOK, MessageTypes,
         WarningTypes, OtherTypes
  <1>3. CASE EndPass
    <2>1. /\ warn_list' = <<>> /\ errhold_stack' = <<>> /\ errhold_stack = <<>>
          /\ stage = "reading" /\ stage' = "between" /\ buffering' = FALSE
          /\ UNCHANGED <<outcome, pass, final, cmdline, worst, never, written,
                         reported, dropped, pushedAt>>
          /\ warning_stack' = <<warning_stack[1]>> /\ warning_state' = warning_stack[1]
          /\ popped' = 0
      BY <1>3 DEF EndPass, passVars, ResetState
    <2>2. warning_stack[1] = cmdline /\ cmdline \in WarningStates
      BY <1>1 DEF PassesStartAlike, WarningTypes
    <2>3. MessageTypes' /\ OtherTypes'
      BY <1>1, <2>1, EmptySeq DEF MessageTypes, OtherTypes
    <2>4. <<cmdline>> \in Seq(WarningStates) /\ Len(<<cmdline>>) = 1
          /\ <<cmdline>>[1] = cmdline
      BY <2>2
    <2>5. WarningTypes' /\ PassesStartAlike'
      BY <2>1, <2>2, <2>4 DEF WarningTypes, PassesStartAlike
    <2>6. ListsInOrder' /\ NothingFatalWaits'
      BY <1>1, <2>1 DEF MessageInv, ListsInOrder, NothingFatalWaits, Tidy, OfThisPass
    <2>7. SilentUntilError' /\ ErrorsCount' /\ VerdictIsExplained'
      BY <1>1, <2>1 DEF MessageInv, SilentUntilError, ErrorsCount,
                        VerdictIsExplained, ErrorShown, terminate_after_phase
    <2> QED
      BY <2>3, <2>5, <2>6, <2>7 DEF ReportingInv, TypeOK, MessageTypes,
         WarningTypes, OtherTypes
  <1>4. CASE CleanUp \/ Finish
    <2>1. /\ stage \in {"between", "cleanup"}
          /\ UNCHANGED <<passVars, bufferVars, warningVars, errhold_stack,
                         popped, reported, dropped, pushedAt>>
      BY <1>4 DEF CleanUp, Finish
    <2>2. UNCHANGED <<pass, final, cmdline, worst, never, buffering, warn_list,
                      written, warning_state, warning_stack, errhold_stack,
                      popped, reported, dropped, pushedAt>>
      BY <2>1 DEF passVars, bufferVars, warningVars
    <2>3. \/ stage' = "cleanup" /\ outcome' = outcome /\ final
          \/ /\ stage' = "done"
             /\ outcome' = IF terminate_after_phase THEN "failed" ELSE "ok"
      BY <1>4 DEF CleanUp, Finish
    <2>4. TypeOK'
      BY <1>1, <2>2, <2>3 DEF TypeOK
    <2>5. PassesStartAlike'
      BY <1>1, <2>1, <2>2, <2>3 DEF PassesStartAlike
    <2>6. ListsInOrder' /\ NothingFatalWaits'
      BY <1>1, <2>1, <2>2, <2>3
         DEF MessageInv, ListsInOrder, NothingFatalWaits, OfThisPass
    <2>7. SilentUntilError' /\ ErrorsCount' /\ VerdictIsExplained'
      BY <1>1, <2>1, <2>2, <2>3
         DEF MessageInv, SilentUntilError, ErrorsCount, VerdictIsExplained,
             ErrorShown, terminate_after_phase
    <2> QED
      BY <2>4, <2>5, <2>6, <2>7 DEF ReportingInv
  <1> QED
    BY <1>2, <1>3, <1>4

(* Below never leaves the elements of a list, not even of an empty one.    *)
LEMMA BelowType ==
    ASSUME NEW S, NEW s \in Seq(S)
    PROVE  Below(s) \in Seq(S)
  <1>1. CASE s = <<>>
    <2>1. Len(s) - 1 \in Int /\ Len(s) - 1 < 1
      BY <1>1
    <2>2. SubSeq(s, 1, Len(s) - 1) = <<>>
      BY <2>1, SubSeqEmpty
    <2> QED
      BY <2>2, EmptySeq DEF Below
  <1>2. CASE s # <<>>
    BY <1>2, TopAndBelow
  <1> QED
    BY <1>1, <1>2

(* What a hold contained answers with a severity, and has ids.             *)
LEMMA AnswerOf ==
    ASSUME NEW list, Waits(list)
    PROVE  /\ Highest({0} \cup Types(list)) \in {0, WARNING, NONFATAL}
           /\ {list[i].id : i \in DOMAIN list} \subseteq Nat
  <1>1. \A i \in DOMAIN list : list[i] \in Message
    BY ElementOfSeq, LenProperties DEF Waits
  <1>2. \A i \in DOMAIN list : list[i].type \in {WARNING, NONFATAL}
    BY <1>1 DEF Waits, Message, Severities, FATAL
  <1> DEFINE S == {0} \cup Types(list)
  <1>3. S \in SUBSET {0, WARNING, NONFATAL} /\ S # {}
    BY <1>2 DEF Types
  <1>4. Highest(S) \in S
    BY <1>3, HighestOf
  <1>5. Highest(S) \in {0, WARNING, NONFATAL}
    BY <1>3, <1>4
  <1>6. \A i \in DOMAIN list : list[i].id \in Nat
    BY <1>1 DEF Message
  <1> QED
    BY <1>5, <1>6

(* The top of a stack of lists that wait, and what is below it, waits.     *)
LEMMA StackWaits ==
    ASSUME NEW s \in Seq(Seq(Message)), s # <<>>,
           \A h \in DOMAIN s : Waits(s[h])
    PROVE  /\ Waits(Top(s))
           /\ Below(s) \in Seq(Seq(Message)) /\ Len(Below(s)) = Len(s) - 1
           /\ \A h \in DOMAIN Below(s) : Waits(Below(s)[h])
  <1>1. /\ Len(s) \in Nat \ {0} /\ Top(s) = s[Len(s)]
        /\ Below(s) \in Seq(Seq(Message)) /\ Len(Below(s)) = Len(s) - 1
        /\ \A i \in 1 .. Len(s) - 1 : Below(s)[i] = s[i]
    BY TopAndBelow
  <1>2. DOMAIN s = 1 .. Len(s) /\ DOMAIN Below(s) = 1 .. Len(s) - 1
    BY <1>1, LenProperties
  <1>3. Len(s) \in DOMAIN s
    BY <1>1, <1>2
  <1>4. Waits(Top(s))
    BY <1>1, <1>3
  <1>5. \A h \in DOMAIN Below(s) : h \in DOMAIN s /\ Below(s)[h] = s[h]
    BY <1>1, <1>2
  <1>6. \A h \in DOMAIN Below(s) : Waits(Below(s)[h])
    BY <1>5
  <1> QED
    BY <1>1, <1>4, <1>6

(* A step in a program or in the cleanup that leaves the warnings alone.   *)
LEMMA WarningsUntouched ==
    ASSUME ReportingInv, UNCHANGED warningVars, cmdline' = cmdline,
           stage' \in {stage, "done"}, ~buffering => ~buffering'
    PROVE  WarningTypes' /\ PassesStartAlike'
  BY DEF ReportingInv, TypeOK, WarningTypes, PassesStartAlike, warningVars

LEMMA ReportingReport ==
    ASSUME ReportingInv, Report
    PROVE  ReportingInv'
  <1>1. PICK k \in Kinds, deadBranch \in BOOLEAN, inMacro \in BOOLEAN :
            nasm_verror(warning_state, k, deadBranch, inMacro)
    BY DEF Report
  <1>2. /\ k \in [severity : Severities, class : Classes, flags : SUBSET Flags]
        /\ "hold" \in k.flags => k.severity = NONFATAL
    BY KindsAssumption
  <1>3. warning_state \in WarningStates /\ OtherTypes
    BY DEF ReportingInv, TypeOK, OtherTypes
  <1>4. /\ stage \in {"reading", "cleanup"} /\ popped' = 0
        /\ UNCHANGED <<pass, final, cmdline, warningVars, dropped, pushedAt>>
    BY DEF Report, passVars
  <1>5. /\ MessageTypes' /\ MessageInv' /\ stage' \in {stage, "done"}
        /\ ~buffering => ~buffering'
    BY <1>1, <1>2, <1>3, <1>4, VerrorInv
  <1>6. WarningTypes' /\ PassesStartAlike'
    BY <1>4, <1>5, WarningsUntouched
  <1>7. OtherTypes'
    BY <1>3, <1>4 DEF OtherTypes
  <1> QED
    BY <1>5, <1>6, <1>7 DEF ReportingInv, TypeOK, MessageInv, MessageTypes,
       WarningTypes, OtherTypes

LEMMA ReportingHolds ==
    ASSUME ReportingInv,
           nasm_error_hold_push \/ Drop \/ PassOn \/ IssueHeld
    PROVE  ReportingInv'
  <1>1. /\ MessageTypes /\ OtherTypes /\ MessageInv /\ TypeOK
        /\ errhold_stack \in Seq(Seq(Message)) /\ pushedAt \in Seq(Nat)
        /\ reported \in Seq(Message) /\ Len(reported) \in Nat
    BY Parts, LenProperties DEF MessageTypes, OtherTypes
  <1>2. /\ stage = "reading"
        /\ UNCHANGED <<stage, outcome, pass, final, cmdline, warningVars, reported>>
    BY DEF nasm_error_hold_push, Drop, PassOn, IssueHeld, passVars
  <1>3. \A h \in DOMAIN errhold_stack : Waits(errhold_stack[h])
    BY <1>1, HeldWaits
  <1>4. reported' \in Seq(Message)
    BY <1>1, <1>2
  <1>5. CASE nasm_error_hold_push
    <2>1. <<>> \in Seq(Message) /\ Waits(<<>>)
      BY EmptySeq DEF Waits, Tidy, OfThisPass
    <2>2. /\ errhold_stack' = Append(errhold_stack, <<>>)
          /\ errhold_stack' \in Seq(Seq(Message))
          /\ \A h \in DOMAIN errhold_stack' :
                \/ h \in DOMAIN errhold_stack /\ errhold_stack'[h] = errhold_stack[h]
                \/ errhold_stack'[h] = <<>>
      <3>1. errhold_stack' = Append(errhold_stack, <<>>)
        BY <1>5 DEF nasm_error_hold_push
      <3> QED
        BY <1>1, <2>1, <3>1, AppendProperties, LenProperties
    <2>3. \A h \in DOMAIN errhold_stack' : Waits(errhold_stack'[h])
      BY <1>3, <2>1, <2>2
    <2>4. MessageTypes' /\ MessageInv'
      BY <1>1, <1>2, <1>4, <1>5, <2>2, <2>3, HoldsChanged
         DEF nasm_error_hold_push
    <2>5. pushedAt' \in Seq(Nat)
      BY <1>1, <1>5, AppendProperties DEF nasm_error_hold_push
    <2>6. OtherTypes' /\ buffering' = buffering
      BY <1>1, <1>2, <1>5, <2>5 DEF nasm_error_hold_push, OtherTypes, bufferVars
    <2> QED
      BY <1>2, <2>4, <2>6, WarningsUntouched DEF ReportingInv, TypeOK, MessageInv,
         MessageTypes, WarningTypes, OtherTypes
  <1>6. CASE Drop
    <2>1. errhold_stack # <<>> /\ errhold_stack' = Below(errhold_stack)
          /\ UNCHANGED bufferVars
      BY <1>6 DEF Drop, AfterDrop
    <2>2. /\ errhold_stack' \in Seq(Seq(Message))
          /\ \A h \in DOMAIN errhold_stack' : Waits(errhold_stack'[h])
          /\ Waits(Top(errhold_stack))
      BY <1>1, <1>3, <2>1, StackWaits
    <2>3. MessageTypes' /\ MessageInv'
      BY <1>1, <1>2, <1>3, <1>4, <2>1, <2>2, HoldsChanged
    <2>4. OtherTypes'
      BY <1>1, <1>2, <1>6, <2>2, AnswerOf, BelowType DEF Drop, OtherTypes
    <2>5. buffering' = buffering
      BY <2>1 DEF bufferVars
    <2> QED
      BY <1>2, <2>3, <2>4, <2>5, WarningsUntouched DEF ReportingInv, TypeOK,
         MessageInv, MessageTypes, WarningTypes, OtherTypes
  <1>7. CASE PassOn
    <2> DEFINE lower == Below(errhold_stack)
               joined == Top(lower) \o Top(errhold_stack)
    <2>1. /\ Len(errhold_stack) > 1 /\ UNCHANGED bufferVars
          /\ errhold_stack' = Append(Below(lower), joined)
      BY <1>7 DEF PassOn, PassedOn
    <2>2. errhold_stack # <<>>
      BY <2>1, EmptySeq
    <2>3. /\ lower \in Seq(Seq(Message)) /\ Len(lower) = Len(errhold_stack) - 1
          /\ \A h \in DOMAIN lower : Waits(lower[h])
          /\ Waits(Top(errhold_stack))
      BY <1>1, <1>3, <2>2, StackWaits
    <2>4. lower # <<>>
      BY <2>1, <2>3, EmptySeq
    <2> HIDE DEF lower
    <2>6. Waits(Top(lower))
      BY <2>3, <2>4, StackWaits
    <2>7. Waits(joined)
      BY <2>3, <2>6, WaitsJoined
    <2> HIDE DEF joined
    <2>8. joined \in Seq(Message)
      BY <2>7 DEF Waits
    <2>9. /\ errhold_stack' \in Seq(Seq(Message))
          /\ DOMAIN errhold_stack' = DOMAIN lower
          /\ \A h \in DOMAIN lower :
                errhold_stack'[h] = lower[h] \/ errhold_stack'[h] = joined
      BY <2>1, <2>3, <2>4, <2>8, TopReplaced
    <2>10. MessageTypes' /\ MessageInv'
      BY <1>1, <1>2, <1>4, <2>1, <2>3, <2>7, <2>9, HoldsChanged
    <2>11. OtherTypes'
      BY <1>1, <1>2, <1>7, BelowType DEF PassOn, OtherTypes
    <2>12. buffering' = buffering
      BY <2>1 DEF bufferVars
    <2> QED
      BY <1>2, <2>10, <2>11, <2>12, WarningsUntouched DEF ReportingInv, TypeOK,
         MessageInv, MessageTypes, WarningTypes, OtherTypes
  <1>8. CASE IssueHeld
    <2> DEFINE top == Top(errhold_stack)
    <2>1. /\ Len(errhold_stack) = 1 /\ Issue(top)
          /\ errhold_stack' = <<>> /\ pushedAt' = <<>>
          /\ popped' = Highest({0} \cup Types(top))
          /\ UNCHANGED dropped
      BY <1>8 DEF IssueHeld
    <2>2. errhold_stack # <<>>
      BY <2>1, EmptySeq
    <2>3. Waits(top)
      BY <1>1, <1>3, <2>2, StackWaits
    <2> HIDE DEF top
    <2>4. /\ top \in Seq(Message) /\ Tidy(top) /\ OfThisPass(top)
          /\ \A i \in DOMAIN top : top[i].type < FATAL
          /\ \A i \in DOMAIN top : top[i].type = FATAL => ~Bufferable(top[i])
      BY <2>3 DEF Waits, FATAL
    <2>5. /\ Tidy(written) /\ OfThisPass(written)
          /\ Tidy(warn_list) /\ OfThisPass(warn_list)
          /\ \A i \in DOMAIN warn_list : warn_list[i].type < FATAL
          /\ ~buffering => warn_list = <<>>
          /\ terminate_after_phase <=> ErrorShown
          /\ outcome = "running"
      BY <1>1, <1>2 DEF MessageInv, ListsInOrder, NothingFatalWaits, ErrorsCount
    <2>6. /\ Tidy(written') /\ OfThisPass(written)'
          /\ Tidy(warn_list') /\ OfThisPass(warn_list)'
          /\ \A i \in DOMAIN warn_list' : warn_list'[i].type < FATAL
          /\ ~buffering' => warn_list' = <<>>
          /\ terminate_after_phase' <=> ErrorShown'
          /\ buffering /\ written = <<>> /\ ~terminate_after_phase'
                => written' = <<>> /\ buffering'
          /\ ErrorShown => ErrorShown'
      BY <1>1, <1>2, <2>1, <2>4, <2>5, IssueInv
    <2>7. MessageTypes'
      BY <1>1, <1>2, <1>4, <2>1, <2>4, IssueTypes, EmptySeq DEF MessageTypes
    <2>8. ListsInOrder' /\ NothingFatalWaits'
      BY <2>1, <2>6 DEF ListsInOrder, NothingFatalWaits
    <2>9. SilentUntilError' /\ ErrorsCount' /\ VerdictIsExplained'
      BY <1>1, <1>2, <2>5, <2>6 DEF MessageInv, SilentUntilError, ErrorsCount,
                                    VerdictIsExplained, terminate_after_phase
    <2>10. OtherTypes'
      BY <1>1, <1>2, <2>1, <2>3, AnswerOf, EmptySeq DEF OtherTypes
    <2>11. ~buffering => ~buffering'
      BY <2>1 DEF Issue
    <2> QED
      BY <1>2, <2>7, <2>8, <2>9, <2>10, <2>11, WarningsUntouched DEF ReportingInv,
         TypeOK, MessageTypes, WarningTypes, OtherTypes
  <1> QED
    BY <1>5, <1>6, <1>7, <1>8

LEMMA ReportingDirectives ==
    ASSUME ReportingInv, push_warnings \/ pop_warnings \/ SetWarningStatus
    PROVE  ReportingInv'
  <1>1. /\ MessageTypes /\ WarningTypes /\ OtherTypes /\ MessageInv /\ TypeOK
        /\ warning_stack[1] = cmdline /\ Len(warning_stack) \in Nat \ {0}
    BY Parts, EmptySeq DEF PassesStartAlike, WarningTypes
  <1>2. /\ stage = "reading" /\ popped' = 0
        /\ UNCHANGED <<pass, final, cmdline, dropped, pushedAt>>
    BY DEF push_warnings, pop_warnings, SetWarningStatus, set_warning_status,
           InDirective, passVars
  <1>3. OtherTypes'
    BY <1>1, <1>2 DEF OtherTypes
  <1>4. ASSUME NEW state \in WarningStates, NEW class \in Classes,
               nasm_verror(state, [severity |-> WARNING, class |-> class,
                                   flags |-> {}], FALSE, FALSE)
        PROVE  MessageTypes' /\ MessageInv' /\ stage' \in {"reading", "done"}
    <2> DEFINE k == [severity |-> WARNING, class |-> class, flags |-> {}]
    <2>1. /\ k \in [severity : Severities, class : Classes, flags : SUBSET Flags]
          /\ "hold" \in k.flags => k.severity = NONFATAL
          /\ FALSE \in BOOLEAN
      BY DEF Severities
    <2> HIDE DEF k
    <2>2. \A dead \in BOOLEAN, inMacro \in BOOLEAN :
             nasm_verror(state, k, dead, inMacro) =>
                 MessageTypes' /\ MessageInv' /\ stage' \in {"reading", "done"}
      BY <1>2, <2>1, VerrorInv
    <2>3. nasm_verror(state, k, FALSE, FALSE)
      BY <1>4 DEF k
    <2> QED
      BY <2>1, <2>2, <2>3
  <1>5. ASSUME UNCHANGED <<stage, outcome, bufferVars, errhold_stack, reported>>
        PROVE  MessageTypes' /\ MessageInv' /\ stage' \in {"reading", "done"}
    <2>1. reported' \in Seq(Message)
      BY <1>1, <1>5 DEF MessageTypes
    <2> QED
      BY <1>1, <1>2, <1>5, <2>1, MessagesUntouched
  <1>6. MessageTypes' /\ MessageInv' /\ stage' \in {"reading", "done"}
    <2>1. CASE push_warnings
      BY <1>2, <1>5, <2>1 DEF push_warnings
    <2>2. CASE pop_warnings
      <3>1. Top(warning_stack) \in WarningStates
        BY <1>1, TopAndBelow DEF WarningTypes
      <3>2. StackEmpty \in Classes
        BY ClassesAssumption
      <3> QED
        BY <1>2, <1>4, <1>5, <2>2, <3>1, <3>2 DEF pop_warnings
    <2>3. CASE SetWarningStatus
      <3>1. Unknown \in Classes /\ warning_state \in WarningStates
        BY <1>1, ClassesAssumption DEF WarningTypes
      <3> QED
        BY <1>2, <1>4, <1>5, <2>3, <3>1 DEF SetWarningStatus, set_warning_status
    <2> QED
      BY <2>1, <2>2, <2>3
  <1>7. WarningTypes' /\ warning_stack'[1] = warning_stack[1]
    <2>1. CASE push_warnings
      <3>1. warning_stack' = Append(warning_stack, warning_state)
            /\ warning_state' = warning_state
        BY <2>1 DEF push_warnings
      <3>2. /\ warning_stack' \in Seq(WarningStates)
            /\ Len(warning_stack') = Len(warning_stack) + 1
            /\ warning_stack'[1] = warning_stack[1]
        BY <1>1, <3>1, AppendProperties DEF WarningTypes
      <3> QED
        BY <1>1, <1>2, <3>1, <3>2, EmptySeq DEF WarningTypes
    <2>2. CASE pop_warnings
      <3>1. /\ warning_state' = Top(warning_stack)
            /\ warning_stack' = IF Len(warning_stack) = 1 THEN warning_stack
                                ELSE Below(warning_stack)
        BY <2>2 DEF pop_warnings, StackAfterPop
      <3>2. /\ Top(warning_stack) \in WarningStates
            /\ Below(warning_stack) \in Seq(WarningStates)
            /\ Len(Below(warning_stack)) = Len(warning_stack) - 1
            /\ \A i \in 1 .. Len(warning_stack) - 1 :
                  Below(warning_stack)[i] = warning_stack[i]
        BY <1>1, TopAndBelow DEF WarningTypes
      <3>3. Len(warning_stack) # 1 => /\ Below(warning_stack) # <<>>
                                      /\ Below(warning_stack)[1] = warning_stack[1]
        <4>1. Len(warning_stack) # 1 => 1 \in 1 .. Len(warning_stack) - 1
          <5>1. \A n \in Nat \ {0} : n # 1 => 1 \in 1 .. n - 1
            OBVIOUS
          <5> QED
            BY <1>1, <5>1
        <4> QED
          BY <1>1, <3>2, <4>1, EmptySeq
      <3> QED
        BY <1>1, <1>2, <3>1, <3>2, <3>3 DEF WarningTypes
    <2>3. CASE SetWarningStatus
      <3>1. PICK name \in Names, action \in Actions, bit \in StatusBits :
                set_warning_status(name, action, bit)
        BY <2>3 DEF SetWarningStatus
      <3>2. warning_stack' = warning_stack
        BY <3>1 DEF set_warning_status
      <3>3. warning_stack[1] \in WarningStates /\ warning_state \in WarningStates
        BY <1>1 DEF WarningTypes
      <3>4. \A c \in Classes :
               /\ warning_state[c] \subseteq StatusBits
               /\ Switched(action, bit, warning_state[c], warning_stack[1][c])
                     \subseteq StatusBits
        BY <3>3 DEF WarningStates, Switched, Actions, StatusBits
      <3>5. warning_state' \in WarningStates
        BY <3>1, <3>4 DEF set_warning_status, WarningStates
      <3> QED
        BY <1>1, <1>2, <3>2, <3>5 DEF WarningTypes
    <2> QED
      BY <2>1, <2>2, <2>3
  <1>8. PassesStartAlike'
    BY <1>1, <1>2, <1>6, <1>7 DEF PassesStartAlike
  <1> QED
    BY <1>3, <1>6, <1>7, <1>8 DEF ReportingInv, TypeOK, MessageInv, MessageTypes,
       WarningTypes, OtherTypes

(* Every step keeps the invariant, and so does none.                       *)
LEMMA ReportingNext == ReportingInv /\ [Next]_vars => ReportingInv'
  <1> SUFFICES ASSUME ReportingInv, [Next]_vars PROVE ReportingInv'
    OBVIOUS
  <1>1. CASE Next
    BY <1>1, ReportingPasses, ReportingReport, ReportingHolds, ReportingDirectives
       DEF Next
  <1>2. CASE UNCHANGED vars
    <2>1. /\ MessageTypes /\ WarningTypes /\ OtherTypes /\ MessageInv
          /\ reported \in Seq(Message)
      BY Parts DEF MessageTypes
    <2>2. /\ UNCHANGED <<stage, outcome, pass, final, bufferVars, errhold_stack>>
          /\ UNCHANGED <<warningVars, cmdline, reported, popped, dropped, pushedAt>>
          /\ buffering' = buffering
      BY <1>2 DEF vars, passVars, bufferVars
    <2>3. MessageTypes' /\ MessageInv'
      BY <2>1, <2>2, MessagesUntouched
    <2>4. OtherTypes'
      BY <2>1, <2>2 DEF OtherTypes
    <2> QED
      BY <2>2, <2>3, <2>4, WarningsUntouched DEF ReportingInv, TypeOK, MessageInv,
         MessageTypes, WarningTypes, OtherTypes
  <1> QED
    BY <1>1, <1>2

-----------------------------------------------------------------------------
(* The state of error reporting keeps its types.                           *)
THEOREM ReportingTypeCorrectness == Spec => []TypeOK
  <1>1. ReportingInv => TypeOK
    BY DEF ReportingInv
  <1> QED
    BY <1>1, ReportingInit, ReportingNext, PTL DEF Spec

(* Whoever is shown an error gets no object file, and whoever gets none is *)
(* shown an error (erropt.worst against what nasm_issue_error wrote).      *)
THEOREM VerdictsAreExplained == Spec => []VerdictIsExplained
  <1>1. ReportingInv => VerdictIsExplained
    BY DEF ReportingInv
  <1> QED
    BY <1>1, ReportingInit, ReportingNext, PTL DEF Spec

(* All messages that are shown come from the last pass that was begun      *)
(* (error_pass_start, error_pass_end).                                     *)
THEOREM MessagesComeFromOnePass == Spec => []OnePassSpeaks
  <1>1. ReportingInv => OnePassSpeaks
    BY DEF ReportingInv, ListsInOrder, OfThisPass, OnePassSpeaks
  <1> QED
    BY <1>1, ReportingInit, ReportingNext, PTL DEF Spec

(* Lines that list macros stay with their message (pp_error_list_macros).  *)
THEOREM MacrosStayWithTheirMessage == Spec => []MacrosFollowTheirMessage
  <1>1. ReportingInv => MacrosFollowTheirMessage
    BY DEF ReportingInv, ListsInOrder, MacrosFollowTheirMessage
  <1> QED
    BY <1>1, ReportingInit, ReportingNext, PTL DEF Spec

(* Whatever [WARNING] directives a program has, each pass starts with the  *)
(* warnings of the command line (reset_warnings).                          *)
THEOREM PassesStartFromTheCommandLine == Spec => []PassesStartAlike
  <1>1. ReportingInv => PassesStartAlike
    BY DEF ReportingInv
  <1> QED
    BY <1>1, ReportingInit, ReportingNext, PTL DEF Spec

-----------------------------------------------------------------------------
(***************************************************************************)
(* The way of every message through holds and buffer: in which order       *)
(* messages are shown, which are not shown, and what a speculative attempt *)
(* learns of the errors it made.                                           *)
(***************************************************************************)

(* What holds of the parts of a list holds of the list.                    *)
LEMMA PlacesJoined ==
    ASSUME NEW s \in Seq(Message), NEW t \in Seq(Message), NEW log, NEW gone
    PROVE  /\ AsReported(s, log, gone) /\ AsReported(t, log, gone)
                  => AsReported(s \o t, log, gone)
           /\ Ordered(s) /\ Ordered(t) /\ Precedes(s, t) => Ordered(s \o t)
           /\ \A n : Since(s, n) /\ Since(t, n) => Since(s \o t, n)
           /\ \A n : UpTo(s, n) /\ UpTo(t, n) => UpTo(s \o t, n)
           /\ \A id : IsIn(id, s \o t) <=> IsIn(id, s) \/ IsIn(id, t)
  <1>1. \A i \in DOMAIN (s \o t) :
           \/ \E j \in DOMAIN s : (s \o t)[i] = s[j]
           \/ \E j \in DOMAIN t : (s \o t)[i] = t[j]
    BY ElementsJoined
  <1>2. /\ \A j \in DOMAIN s : \E i \in DOMAIN (s \o t) : (s \o t)[i] = s[j]
        /\ \A j \in DOMAIN t : \E i \in DOMAIN (s \o t) : (s \o t)[i] = t[j]
    BY ElementsJoined
  <1>3. AsReported(s, log, gone) /\ AsReported(t, log, gone)
           => AsReported(s \o t, log, gone)
    <2> DEFINE P(m) == /\ m.id \in DOMAIN log /\ m.id \notin gone
                       /\ log[m.id] = [m EXCEPT !.listmacro = FALSE]
    <2>1. \A list : AsReported(list, log, gone) <=> \A i \in DOMAIN list : P(list[i])
      BY DEF AsReported
    <2> HIDE DEF P
    <2> QED
      BY <1>1, <2>1
  <1>4. \A n : Since(s, n) /\ Since(t, n) => Since(s \o t, n)
    BY <1>1, Zenon DEF Since
  <1>5. \A n : UpTo(s, n) /\ UpTo(t, n) => UpTo(s \o t, n)
    BY <1>1, Zenon DEF UpTo
  <1>6. \A id : IsIn(id, s \o t) <=> IsIn(id, s) \/ IsIn(id, t)
    <2> TAKE id
    <2>1. IsIn(id, s \o t) => IsIn(id, s) \/ IsIn(id, t)
      BY <1>1 DEF IsIn
    <2>2. IsIn(id, s) \/ IsIn(id, t) => IsIn(id, s \o t)
      BY <1>2 DEF IsIn
    <2> QED
      BY <2>1, <2>2
  <1>7. ASSUME Ordered(s), Ordered(t), Precedes(s, t) PROVE Ordered(s \o t)
    <2> SUFFICES ASSUME NEW i \in DOMAIN (s \o t), NEW j \in DOMAIN (s \o t), i < j
                 PROVE  (s \o t)[i].id <= (s \o t)[j].id
      BY DEF Ordered
    <2>1. CASE j <= Len(s)
      <3>1. /\ i \in DOMAIN s /\ j \in DOMAIN s
            /\ (s \o t)[i] = s[i] /\ (s \o t)[j] = s[j]
        BY <2>1, Joined
      <3> QED
        BY <1>7, <3>1 DEF Ordered
    <2>2. CASE i > Len(s)
      <3>1. /\ i - Len(s) \in DOMAIN t /\ j - Len(s) \in DOMAIN t
            /\ (s \o t)[i] = t[i - Len(s)] /\ (s \o t)[j] = t[j - Len(s)]
            /\ i - Len(s) < j - Len(s)
        BY <2>2, Joined
      <3> QED
        BY <1>7, <3>1 DEF Ordered
    <2>3. CASE i <= Len(s) /\ j > Len(s)
      <3>1. /\ i \in DOMAIN s /\ j - Len(s) \in DOMAIN t
            /\ (s \o t)[i] = s[i] /\ (s \o t)[j] = t[j - Len(s)]
        BY <2>3, Joined
      <3>2. s[i] \in Message /\ t[j - Len(s)] \in Message
        BY <3>1, ElementOfSeq, LenProperties
      <3>3. s[i].id < t[j - Len(s)].id /\ s[i].id \in Nat /\ t[j - Len(s)].id \in Nat
        BY <1>7, <3>1, <3>2 DEF Precedes, Since, Message
      <3> QED
        BY <3>1, <3>3
    <2>4. Len(s) \in Nat /\ i \in Nat /\ j \in Nat
      BY Joined
    <2> QED
      BY <2>1, <2>2, <2>3, <2>4
  <1> QED
    BY <1>3, <1>4, <1>5, <1>6, <1>7

(* Precedence and joined lists.                                            *)
LEMMA PrecedesJoined ==
    ASSUME NEW s \in Seq(Message), NEW t \in Seq(Message), NEW u \in Seq(Message)
    PROVE  /\ Precedes(s, t) /\ Precedes(s, u) => Precedes(s, t \o u)
           /\ Precedes(s, u) /\ Precedes(t, u) => Precedes(s \o t, u)
  <1>1. Precedes(s, t) /\ Precedes(s, u) => Precedes(s, t \o u)
    BY PlacesJoined DEF Precedes
  <1>2. \A i \in DOMAIN (s \o t) :
           \/ \E j \in DOMAIN s : (s \o t)[i] = s[j]
           \/ \E j \in DOMAIN t : (s \o t)[i] = t[j]
    BY ElementsJoined
  <1>3. Precedes(s, u) /\ Precedes(t, u) => Precedes(s \o t, u)
    BY <1>2, Zenon DEF Precedes
  <1> QED
    BY <1>1, <1>3

(* Ids of messages are numbers.                                            *)
LEMMA Ids ==
    ASSUME NEW s \in Seq(Message)
    PROVE  \A i \in DOMAIN s : s[i] \in Message /\ s[i].id \in Nat \ {0}
  <1>1. \A i \in DOMAIN s : s[i] \in Message
    BY ElementOfSeq, LenProperties
  <1> QED
    BY <1>1 DEF Message

(* One list is up to a number, the other since then.                       *)
LEMMA PrecedesAt ==
    ASSUME NEW s \in Seq(Message), NEW t \in Seq(Message), NEW n \in Nat,
           UpTo(s, n), Since(t, n)
    PROVE  Precedes(s, t)
  <1>1. ASSUME NEW i \in DOMAIN s, NEW j \in DOMAIN t PROVE s[i].id < t[j].id
    <2>1. s[i].id \in Nat /\ t[j].id \in Nat
      BY Ids
    <2> QED
      BY <2>1 DEF UpTo, Since
  <1> QED
    BY <1>1 DEF Precedes, Since

(* The empty list.                                                         *)
LEMMA EmptyList ==
    /\ <<>> \in Seq(Message) /\ DOMAIN <<>> = {} /\ Len(<<>>) = 0
    /\ \A log, gone : AsReported(<<>>, log, gone)
    /\ Ordered(<<>>)
    /\ \A n : Since(<<>>, n) /\ UpTo(<<>>, n)
    /\ \A id : ~IsIn(id, <<>>)
    /\ \A s : Precedes(s, <<>>) /\ Precedes(<<>>, s)
  BY DEF AsReported, Ordered, Since, UpTo, IsIn, Precedes

(* When a message is added to the record, lists still agree with it.       *)
LEMMA RecordGrows ==
    ASSUME NEW log \in Seq(Message), NEW m \in Message, NEW gone
    PROVE  /\ Append(log, m) \in Seq(Message)
           /\ Len(log) \in Nat
           /\ Len(Append(log, m)) = Len(log) + 1
           /\ DOMAIN log = 1 .. Len(log)
           /\ DOMAIN Append(log, m) = 1 .. Len(log) + 1
           /\ \A id \in DOMAIN log : Append(log, m)[id] = log[id]
           /\ Append(log, m)[Len(log) + 1] = m
           /\ \A s : AsReported(s, log, gone) => AsReported(s, Append(log, m), gone)
  <1>1. /\ Append(log, m) \in Seq(Message)
        /\ Len(log) \in Nat
        /\ Len(Append(log, m)) = Len(log) + 1
        /\ DOMAIN log = 1 .. Len(log)
        /\ DOMAIN Append(log, m) = 1 .. Len(log) + 1
        /\ \A id \in DOMAIN log : Append(log, m)[id] = log[id]
        /\ Append(log, m)[Len(log) + 1] = m
    BY AppendProperties, LenProperties
  <1>2. \A s : AsReported(s, log, gone) => AsReported(s, Append(log, m), gone)
    <2>1. \A id \in DOMAIN log : id \in DOMAIN Append(log, m)
      BY <1>1
    <2> QED
      BY <1>1, <2>1 DEF AsReported
  <1> QED
    BY <1>1, <1>2

(* What agrees with the record is no newer than its end.                   *)
LEMMA UpToEnd ==
    ASSUME NEW log \in Seq(Message), NEW gone, NEW s, AsReported(s, log, gone)
    PROVE  UpTo(s, Len(log))
  <1>1. DOMAIN log = 1 .. Len(log) /\ Len(log) \in Nat
    BY LenProperties
  <1>2. \A n \in DOMAIN log : n <= Len(log)
    BY <1>1
  <1> QED
    BY <1>2 DEF AsReported, UpTo

(* All lines of a message have its number.                                 *)
LEMMA LinesInPlace ==
    ASSUME NEW m \in Message, ~m.listmacro,
           NEW held \in BOOLEAN, NEW inMacro \in BOOLEAN
    PROVE  /\ Lines(m, held, inMacro) \in Seq(Message)
           /\ \A i \in DOMAIN Lines(m, held, inMacro) :
                 /\ Lines(m, held, inMacro)[i].id = m.id
                 /\ Lines(m, held, inMacro)[i].type = m.type
                 /\ Lines(m, held, inMacro)[i].flags = m.flags
                 /\ [Lines(m, held, inMacro)[i] EXCEPT !.listmacro = FALSE] = m
           /\ IsIn(m.id, Lines(m, held, inMacro))
           /\ Silences(m) /\ IsUndead(m) /\ ~held => Lines(m, held, inMacro) = <<m>>
  <1> DEFINE n == [m EXCEPT !.listmacro = TRUE]
  <1>1. /\ n \in Message /\ n.id = m.id /\ n.type = m.type /\ n.flags = m.flags
        /\ [n EXCEPT !.listmacro = FALSE] = m
        /\ [m EXCEPT !.listmacro = FALSE] = m
    BY DEF Message
  <1>2. Silences(m) /\ IsUndead(m) /\ ~held => Lines(m, held, inMacro) = <<m>>
    BY DEF Lines, Silences, IsUndead
  <1>3. Lines(m, held, inMacro) = <<m>> \/ Lines(m, held, inMacro) = <<m, n>>
    BY DEF Lines
  <1> HIDE DEF n
  <1>4. CASE Lines(m, held, inMacro) = <<m>>
    <2>1. <<m>> \in Seq(Message) /\ DOMAIN <<m>> = {1} /\ <<m>>[1] = m
      OBVIOUS
    <2> QED
      BY <1>1, <1>2, <1>4, <2>1 DEF IsIn
  <1>5. CASE Lines(m, held, inMacro) = <<m, n>>
    <2>1. /\ <<m, n>> \in Seq(Message) /\ DOMAIN <<m, n>> = {1, 2}
          /\ <<m, n>>[1] = m /\ <<m, n>>[2] = n
      BY <1>1
    <2> QED
      BY <1>1, <1>2, <1>5, <2>1 DEF IsIn
  <1> QED
    BY <1>3, <1>4, <1>5

-----------------------------------------------------------------------------
(* What each operation on the hold stack does to the partition of the      *)
(* messages among the holds.                                               *)

(* nasm_error_hold_push: the new hold is empty, and nothing is newer.      *)
LEMMA PartitionPush ==
    ASSUME NEW stack \in Seq(Seq(Message)), NEW pushes \in Seq(Nat),
           NEW log \in Seq(Message), NEW gone,
           Partition(stack, pushes, log, gone)
    PROVE  Partition(Append(stack, <<>>), Append(pushes, Len(log)), log, gone)
  <1> DEFINE stack2 == Append(stack, <<>>)
             pushes2 == Append(pushes, Len(log))
             n == Len(stack)
  <1>1. /\ n \in Nat /\ Len(pushes) = n /\ Len(log) \in Nat
        /\ DOMAIN log = 1 .. Len(log)
    BY LenProperties DEF Partition
  <1>2. /\ Len(stack2) = n + 1
        /\ \A h \in 1 .. n : stack2[h] = stack[h]
        /\ stack2[n + 1] = <<>>
    BY <1>1, EmptyList, AppendProperties
  <1>3. /\ Len(pushes2) = n + 1
        /\ \A h \in 1 .. n : pushes2[h] = pushes[h]
        /\ pushes2[n + 1] = Len(log)
    BY <1>1, AppendProperties
  <1> HIDE DEF stack2, pushes2
  <1>4. ASSUME NEW h \in 1 .. n + 1
        PROVE  /\ AsReported(stack2[h], log, gone) /\ Ordered(stack2[h])
               /\ pushes2[h] <= Len(log)
               /\ Since(stack2[h], pushes2[h])
               /\ \A g \in 1 .. h - 1 : /\ UpTo(stack2[g], pushes2[h])
                                        /\ pushes2[g] <= pushes2[h]
               /\ \A id \in DOMAIN log :
                     id > pushes2[h] /\ id \notin gone =>
                         \E g \in h .. n + 1 : IsIn(id, stack2[g])
    <2>1. CASE h \in 1 .. n
      <3>1. \A g \in 1 .. h - 1 : g \in 1 .. n
        BY <1>1, <2>1
      <3>2. \A g \in h .. n : g \in h .. n + 1 /\ g \in 1 .. n
        BY <1>1, <2>1
      <3> QED
        BY <1>1, <1>2, <1>3, <2>1, <3>1, <3>2 DEF Partition
    <2>2. CASE h = n + 1
      <3>1. \A g \in 1 .. n : /\ UpTo(stack[g], Len(log))
                              /\ pushes[g] <= Len(log)
        BY <1>1, UpToEnd DEF Partition
      <3>2. \A g \in 1 .. h - 1 : g \in 1 .. n
        BY <1>1, <2>2
      <3>3. \A id \in DOMAIN log : ~(id > Len(log))
        BY <1>1
      <3>4. \A g \in 1 .. h - 1 : /\ UpTo(stack2[g], pushes2[h])
                                  /\ pushes2[g] <= pushes2[h]
        BY <1>2, <1>3, <2>2, <3>1, <3>2
      <3> QED
        BY <1>1, <1>2, <1>3, <2>2, <3>3, <3>4, EmptyList
    <2> QED
      BY <1>1, <2>1, <2>2
  <1>5. Partition(stack2, pushes2, log, gone)
    BY <1>2, <1>3, <1>4 DEF Partition
  <1> QED
    BY <1>5 DEF stack2, pushes2

(* nasm_error_hold_pop with false: what the top hold has is gone, and it   *)
(* is newer than what any other list has.                                  *)
LEMMA PartitionDrop ==
    ASSUME NEW stack \in Seq(Seq(Message)), NEW pushes \in Seq(Nat), stack # <<>>,
           NEW log \in Seq(Message), NEW gone, NEW gone2,
           gone2 = gone \cup {Top(stack)[i].id : i \in DOMAIN Top(stack)},
           Partition(stack, pushes, log, gone)
    PROVE  /\ Partition(Below(stack), Below(pushes), log, gone2)
           /\ \A s \in Seq(Message) :
                 AsReported(s, log, gone) /\ UpTo(s, pushes[Len(stack)])
                     => AsReported(s, log, gone2)
  <1> DEFINE stack2 == Below(stack)
             pushes2 == Below(pushes)
             n == Len(stack)
             top == Top(stack)
  <1>1. /\ n \in Nat \ {0} /\ Len(pushes) = n /\ Len(log) \in Nat
        /\ DOMAIN log = 1 .. Len(log) /\ pushes # <<>>
    BY LenProperties, EmptySeq DEF Partition
  <1>2. /\ Len(stack2) = n - 1 /\ top \in Seq(Message) /\ top = stack[n]
        /\ \A h \in 1 .. n - 1 : stack2[h] = stack[h]
        /\ \A h \in 1 .. n : stack[h] \in Seq(Message)
    BY <1>1, TopAndBelow, ElementOfSeq
  <1>3. /\ Len(pushes2) = n - 1
        /\ \A h \in 1 .. n - 1 : pushes2[h] = pushes[h]
        /\ \A h \in 1 .. n : pushes[h] \in Nat
    BY <1>1, TopAndBelow, ElementOfSeq
  <1>4. \A s \in Seq(Message) :
           AsReported(s, log, gone) /\ UpTo(s, pushes[n])
               => AsReported(s, log, gone2)
    <2>1. SUFFICES ASSUME NEW s \in Seq(Message), NEW i \in DOMAIN s,
                          UpTo(s, pushes[n])
                   PROVE  \A j \in DOMAIN top : s[i].id # top[j].id
      BY DEF AsReported
    <2>2. n \in 1 .. n
      BY <1>1
    <2>3. Since(top, pushes[n]) /\ pushes[n] \in Nat
      BY <1>2, <1>3, <2>2 DEF Partition
    <2>4. \A j \in DOMAIN top : s[i].id < top[j].id
      BY <1>2, <2>1, <2>3, PrecedesAt DEF Precedes, Since
    <2>5. s[i].id \in Nat /\ \A j \in DOMAIN top : top[j].id \in Nat
      BY <1>2, Ids
    <2> QED
      BY <2>4, <2>5
  <1> HIDE DEF stack2, pushes2, n, top
  <1>5. ASSUME NEW h \in 1 .. n - 1
        PROVE  /\ AsReported(stack2[h], log, gone2) /\ Ordered(stack2[h])
               /\ pushes2[h] <= Len(log)
               /\ Since(stack2[h], pushes2[h])
               /\ \A g \in 1 .. h - 1 : /\ UpTo(stack2[g], pushes2[h])
                                        /\ pushes2[g] <= pushes2[h]
               /\ \A id \in DOMAIN log :
                     id > pushes2[h] /\ id \notin gone2 =>
                         \E g \in h .. n - 1 : IsIn(id, stack2[g])
    <2>1. h \in 1 .. n /\ n \in 1 .. n /\ h \in 1 .. n - 1
      BY <1>1
    <2>2. /\ AsReported(stack[h], log, gone) /\ Ordered(stack[h])
          /\ pushes[h] <= Len(log)
          /\ Since(stack[h], pushes[h])
          /\ \A g \in 1 .. h - 1 : UpTo(stack[g], pushes[h]) /\ pushes[g] <= pushes[h]
          /\ UpTo(stack[h], pushes[n])
      BY <2>1 DEF Partition, n
    <2>3. AsReported(stack2[h], log, gone2)
      BY <1>2, <1>4, <2>1, <2>2
    <2>4. \A g \in 1 .. h - 1 : g \in 1 .. n - 1
      BY <1>1, <2>1
    <2>5. ASSUME NEW id \in DOMAIN log, id > pushes2[h], id \notin gone2
          PROVE  \E g \in h .. n - 1 : IsIn(id, stack2[g])
      <3>1. id > pushes[h] /\ id \notin gone
        BY <1>3, <2>5
      <3>2. PICK g \in h .. n : IsIn(id, stack[g])
        BY <2>1, <3>1 DEF Partition, n
      <3>3. ~IsIn(id, top)
        BY <2>5 DEF IsIn, top
      <3>4. g # n
        BY <1>2, <3>2, <3>3
      <3>5. g \in h .. n - 1 /\ g \in 1 .. n - 1
        BY <1>1, <3>4
      <3> QED
        BY <1>2, <3>2, <3>5
    <2> QED
      BY <1>2, <1>3, <2>2, <2>3, <2>4, <2>5
  <1>6. Partition(stack2, pushes2, log, gone2)
    BY <1>2, <1>3, <1>5 DEF Partition
  <1> QED
    BY <1>4, <1>6 DEF stack2, pushes2, n

(* nasm_error_hold_pop with true at an inner level: the two topmost lists  *)
(* become one.                                                             *)
LEMMA PartitionPassOn ==
    ASSUME NEW stack \in Seq(Seq(Message)), NEW pushes \in Seq(Nat),
           Len(stack) > 1, NEW log \in Seq(Message), NEW gone,
           Partition(stack, pushes, log, gone)
    PROVE  LET lower == Below(stack)
               joined == Top(lower) \o Top(stack)
           IN /\ Partition(Append(Below(lower), joined), Below(pushes), log, gone)
              /\ Len(Append(Below(lower), joined)) = Len(stack) - 1
              /\ \A h \in 1 .. Len(stack) - 1 : Below(pushes)[h] = pushes[h]
              /\ \A id : IsIn(id, joined) <=> \/ IsIn(id, stack[Len(stack) - 1])
                                              \/ IsIn(id, stack[Len(stack)])
              /\ Append(Below(lower), joined)[Len(stack) - 1] = joined
              /\ \A h \in 1 .. Len(stack) - 2 :
                    Append(Below(lower), joined)[h] = stack[h]
  <1> DEFINE lower == Below(stack)
             joined == Top(lower) \o Top(stack)
             stack2 == Append(Below(lower), joined)
             pushes2 == Below(pushes)
             n == Len(stack)
  <1>1. /\ n \in Nat /\ n > 1 /\ Len(pushes) = n /\ Len(log) \in Nat
        /\ DOMAIN log = 1 .. Len(log) /\ pushes # <<>> /\ stack # <<>>
    BY LenProperties, EmptySeq DEF Partition
  <1>2. /\ lower \in Seq(Seq(Message)) /\ Len(lower) = n - 1
        /\ Top(stack) \in Seq(Message) /\ Top(stack) = stack[n]
        /\ \A h \in 1 .. n - 1 : lower[h] = stack[h]
    BY <1>1, TopAndBelow
  <1>3. lower # <<>>
    BY <1>1, <1>2, EmptySeq
  <1> HIDE DEF lower
  <1>4. /\ Below(lower) \in Seq(Seq(Message)) /\ Len(Below(lower)) = n - 2
        /\ Top(lower) \in Seq(Message) /\ Top(lower) = stack[n - 1]
        /\ \A h \in 1 .. n - 2 : Below(lower)[h] = stack[h]
    <2>1. /\ Below(lower) \in Seq(Seq(Message)) /\ Len(Below(lower)) = n - 1 - 1
          /\ Top(lower) \in Seq(Message) /\ Top(lower) = lower[n - 1]
          /\ \A h \in 1 .. n - 1 - 1 : Below(lower)[h] = lower[h]
      BY <1>2, <1>3, TopAndBelow
    <2>2. n - 1 - 1 = n - 2 /\ n - 1 \in 1 .. n - 1
          /\ \A h \in 1 .. n - 2 : h \in 1 .. n - 1
      BY <1>1
    <2> QED
      BY <1>2, <2>1, <2>2
  <1>5. /\ joined \in Seq(Message)
        /\ \A id : IsIn(id, joined) <=> IsIn(id, stack[n - 1]) \/ IsIn(id, stack[n])
    <2>1. joined \in Seq(Message)
      BY <1>2, <1>4, Joined
    <2>2. \A id : IsIn(id, joined) <=> IsIn(id, Top(lower)) \/ IsIn(id, Top(stack))
      BY <1>2, <1>4, PlacesJoined
    <2> QED
      BY <1>2, <1>4, <2>1, <2>2
  <1> HIDE DEF joined
  <1>6. /\ Len(stack2) = n - 1 /\ stack2[n - 1] = joined
        /\ \A h \in 1 .. n - 2 : stack2[h] = stack[h]
    <2>1. /\ Len(stack2) = n - 2 + 1 /\ stack2[n - 2 + 1] = joined
          /\ \A h \in 1 .. n - 2 : stack2[h] = Below(lower)[h]
      BY <1>4, <1>5, AppendProperties
    <2>2. n - 2 + 1 = n - 1
      BY <1>1
    <2> QED
      BY <1>4, <2>1, <2>2
  <1>7. /\ Len(pushes2) = n - 1
        /\ \A h \in 1 .. n - 1 : pushes2[h] = pushes[h]
        /\ \A h \in 1 .. n : pushes[h] \in Nat
    BY <1>1, TopAndBelow, ElementOfSeq
  <1> HIDE DEF stack2, pushes2, n
  <1>8. ASSUME NEW h \in 1 .. n - 1
        PROVE  /\ AsReported(stack2[h], log, gone) /\ Ordered(stack2[h])
               /\ pushes2[h] <= Len(log)
               /\ Since(stack2[h], pushes2[h])
               /\ \A g \in 1 .. h - 1 : /\ UpTo(stack2[g], pushes2[h])
                                        /\ pushes2[g] <= pushes2[h]
               /\ \A id \in DOMAIN log :
                     id > pushes2[h] /\ id \notin gone =>
                         \E g \in h .. n - 1 : IsIn(id, stack2[g])
    <2>1. h \in 1 .. n /\ n \in 1 .. n /\ n - 1 \in 1 .. n /\ n - 1 \in 1 .. n - 1
      BY <1>1
    <2>2. \A k \in 1 .. n :
             /\ AsReported(stack[k], log, gone) /\ Ordered(stack[k])
             /\ pushes[k] <= Len(log) /\ Since(stack[k], pushes[k])
             /\ \A g \in 1 .. k - 1 : UpTo(stack[g], pushes[k]) /\ pushes[g] <= pushes[k]
             /\ \A id \in DOMAIN log : id > pushes[k] /\ id \notin gone =>
                                          \E g \in k .. n : IsIn(id, stack[g])
      BY DEF Partition, n
    <2>3. /\ AsReported(stack2[h], log, gone) /\ Ordered(stack2[h])
          /\ Since(stack2[h], pushes2[h])
      <3>1. CASE h = n - 1
        <4>1. /\ stack[n - 1] \in Seq(Message) /\ stack[n] \in Seq(Message)
              /\ joined = stack[n - 1] \o stack[n]
          BY <1>2, <1>4 DEF joined
        <4>2. n - 1 \in 1 .. n - 1 /\ UpTo(stack[n - 1], pushes[n]) /\ pushes[n - 1] <= pushes[n]
          BY <2>1, <2>2
        <4>3. Precedes(stack[n - 1], stack[n])
          BY <1>7, <2>1, <2>2, <4>1, <4>2, PrecedesAt
        <4>4. Since(stack[n], pushes[n - 1])
          <5>1. Since(stack[n], pushes[n])
            BY <2>1, <2>2
          <5>2. \A i \in DOMAIN stack[n] : stack[n][i].id \in Nat
            BY <4>1, Ids
          <5>3. pushes[n - 1] \in Nat /\ pushes[n] \in Nat
            BY <1>7, <2>1
          <5>4. pushes[n - 1] <= pushes[n]
            BY <4>2
          <5> SUFFICES ASSUME NEW i \in DOMAIN stack[n]
                       PROVE  pushes[n - 1] < stack[n][i].id
            BY DEF Since
          <5>5. pushes[n] < stack[n][i].id /\ stack[n][i].id \in Nat
            BY <5>1, <5>2 DEF Since
          <5>6. \A a, b, c \in Nat : a <= b /\ b < c => a < c
            OBVIOUS
          <5> QED
            BY ONLY <5>3, <5>4, <5>5, <5>6, Zenon
        <4>5. /\ AsReported(joined, log, gone) /\ Ordered(joined)
              /\ Since(joined, pushes[n - 1])
          BY <2>1, <2>2, <4>1, <4>3, <4>4, PlacesJoined
        <4>6. stack2[h] = joined /\ pushes2[h] = pushes[n - 1]
          BY <1>6, <1>7, <2>1, <3>1
        <4> QED
          BY <4>5, <4>6
      <3>2. CASE h # n - 1
        <4>1. h \in 1 .. n - 2
          BY <1>1, <3>2
        <4> QED
          BY <1>6, <1>7, <2>1, <2>2, <4>1
      <3> QED
        BY <3>1, <3>2
    <2>4. \A g \in 1 .. h - 1 : UpTo(stack2[g], pushes2[h]) /\ pushes2[g] <= pushes2[h]
      <3>1. \A g \in 1 .. h - 1 : g \in 1 .. n - 2 /\ g \in 1 .. n - 1
        BY <1>1
      <3> QED
        BY <1>6, <1>7, <2>1, <2>2, <3>1
    <2>5. ASSUME NEW id \in DOMAIN log, id > pushes2[h], id \notin gone
          PROVE  \E g \in h .. n - 1 : IsIn(id, stack2[g])
      <3>1. PICK g \in h .. n : IsIn(id, stack[g])
        BY <1>7, <2>1, <2>2, <2>5
      <3>2. CASE g \in 1 .. n - 2
        <4>1. g \in h .. n - 1
          BY <1>1, <3>2
        <4> QED
          BY <1>6, <3>1, <3>2, <4>1
      <3>3. CASE g \in {n - 1, n}
        <4>1. n - 1 \in h .. n - 1
          BY <1>1
        <4>2. IsIn(id, stack2[n - 1])
          BY <1>5, <1>6, <3>1, <3>3
        <4> QED
          BY <4>1, <4>2
      <3>4. g \in 1 .. n - 2 \/ g \in {n - 1, n}
        BY <1>1
      <3> QED
        BY <3>2, <3>3, <3>4
    <2> QED
      BY <1>7, <2>1, <2>2, <2>3, <2>4, <2>5
  <1>9. Partition(stack2, pushes2, log, gone)
    BY <1>6, <1>7, <1>8 DEF Partition
  <1> QED
    BY <1>5, <1>6, <1>7, <1>9 DEF lower, joined, stack2, pushes2, n

(* A message that is held: it is the newest, and goes to the top hold.     *)
LEMMA PartitionReport ==
    ASSUME NEW stack \in Seq(Seq(Message)), NEW pushes \in Seq(Nat), stack # <<>>,
           NEW log \in Seq(Message), NEW gone, NEW m \in Message,
           m.id = Len(log) + 1, m.id \notin gone,
           NEW lines \in Seq(Message), IsIn(m.id, lines),
           \A i \in DOMAIN lines : /\ lines[i].id = m.id
                                   /\ [lines[i] EXCEPT !.listmacro = FALSE] = m,
           Partition(stack, pushes, log, gone)
    PROVE  Partition(Append(Below(stack), Top(stack) \o lines), pushes,
                     Append(log, m), gone)
  <1> DEFINE top == Top(stack) \o lines
             stack2 == Append(Below(stack), top)
             log2 == Append(log, m)
             n == Len(stack)
  <1>1. /\ n \in Nat \ {0} /\ Len(pushes) = n /\ pushes # <<>>
        /\ \A h \in 1 .. n : pushes[h] \in Nat
    BY EmptySeq, ElementOfSeq DEF Partition
  <1>2. /\ Below(stack) \in Seq(Seq(Message)) /\ Len(Below(stack)) = n - 1
        /\ Top(stack) \in Seq(Message) /\ Top(stack) = stack[n]
        /\ \A h \in 1 .. n - 1 : Below(stack)[h] = stack[h]
    BY TopAndBelow
  <1>3. /\ top \in Seq(Message)
        /\ \A id : IsIn(id, top) <=> IsIn(id, stack[n]) \/ IsIn(id, lines)
    <2>1. top \in Seq(Message)
      BY <1>2, Joined
    <2>2. \A id : IsIn(id, top) <=> IsIn(id, Top(stack)) \/ IsIn(id, lines)
      BY <1>2, PlacesJoined
    <2> QED
      BY <1>2, <2>1, <2>2
  <1>4. /\ Len(stack2) = n /\ stack2[n] = top
        /\ \A h \in 1 .. n - 1 : stack2[h] = stack[h]
    <2> HIDE DEF top
    <2>1. /\ Len(stack2) = n - 1 + 1 /\ stack2[n - 1 + 1] = top
          /\ \A h \in 1 .. n - 1 : stack2[h] = Below(stack)[h]
      BY <1>2, <1>3, AppendProperties
    <2>2. n - 1 + 1 = n
      BY <1>1
    <2> QED
      BY <1>2, <2>1, <2>2
  <1>5. /\ log2 \in Seq(Message) /\ Len(log) \in Nat /\ Len(log2) = Len(log) + 1
        /\ DOMAIN log = 1 .. Len(log) /\ DOMAIN log2 = 1 .. Len(log) + 1
        /\ log2[Len(log) + 1] = m
        /\ \A s : AsReported(s, log, gone) => AsReported(s, log2, gone)
    BY RecordGrows
  <1>6. /\ AsReported(lines, log2, gone) /\ Ordered(lines)
        /\ \A k \in 0 .. Len(log) : Since(lines, k)
    <2>1. \A i \in DOMAIN lines : lines[i].id \in DOMAIN log2 /\ lines[i].id \notin gone
      BY <1>5
    <2>2. AsReported(lines, log2, gone)
      BY <1>5, <2>1 DEF AsReported
    <2>3. Ordered(lines)
      BY <1>5 DEF Ordered
    <2>4. \A k \in 0 .. Len(log) : Since(lines, k)
      BY <1>5 DEF Since
    <2> QED
      BY <2>2, <2>3, <2>4
  <1> HIDE DEF stack2, log2, n
  <1>7. ASSUME NEW h \in 1 .. n
        PROVE  /\ AsReported(stack2[h], log2, gone) /\ Ordered(stack2[h])
               /\ pushes[h] <= Len(log2)
               /\ Since(stack2[h], pushes[h])
               /\ \A g \in 1 .. h - 1 : /\ UpTo(stack2[g], pushes[h])
                                        /\ pushes[g] <= pushes[h]
               /\ \A id \in DOMAIN log2 :
                     id > pushes[h] /\ id \notin gone =>
                         \E g \in h .. n : IsIn(id, stack2[g])
    <2>1. n \in 1 .. n /\ n \in h .. n
      BY <1>1
    <2>2. \A k \in 1 .. n :
             /\ AsReported(stack[k], log, gone) /\ Ordered(stack[k])
             /\ pushes[k] <= Len(log) /\ Since(stack[k], pushes[k])
             /\ \A g \in 1 .. k - 1 : UpTo(stack[g], pushes[k]) /\ pushes[g] <= pushes[k]
             /\ \A id \in DOMAIN log : id > pushes[k] /\ id \notin gone =>
                                          \E g \in k .. n : IsIn(id, stack[g])
      BY DEF Partition, n
    <2>3. /\ AsReported(stack2[h], log2, gone) /\ Ordered(stack2[h])
          /\ Since(stack2[h], pushes[h])
      <3>1. CASE h = n
        <4>1. AsReported(stack[n], log2, gone) /\ UpTo(stack[n], Len(log))
          BY <1>5, <2>1, <2>2, UpToEnd
        <4>2. Precedes(stack[n], lines)
          <5>1. stack[n] \in Seq(Message)
            BY <1>2
          <5>2. Len(log) \in 0 .. Len(log)
            BY <1>5
          <5>3. Since(lines, Len(log))
            BY <1>6, <5>2
          <5> QED
            BY <1>5, <4>1, <5>1, <5>3, PrecedesAt
        <4>3. Since(lines, pushes[n])
          BY <1>1, <1>5, <1>6, <2>1, <2>2
        <4>4. AsReported(top, log2, gone) /\ Ordered(top) /\ Since(top, pushes[n])
          BY <1>2, <1>6, <2>1, <2>2, <4>1, <4>2, <4>3, PlacesJoined
        <4> QED
          BY <1>4, <3>1, <4>4
      <3>2. CASE h # n
        <4>1. h \in 1 .. n - 1
          BY <1>1, <3>2
        <4> QED
          BY <1>4, <1>5, <2>2, <4>1
      <3> QED
        BY <3>1, <3>2
    <2>4. pushes[h] <= Len(log2)
      BY <1>1, <1>5, <2>2
    <2>5. \A g \in 1 .. h - 1 : UpTo(stack2[g], pushes[h]) /\ pushes[g] <= pushes[h]
      <3>1. \A g \in 1 .. h - 1 : g \in 1 .. n - 1
        BY <1>1
      <3> QED
        BY <1>4, <2>2, <3>1
    <2>6. ASSUME NEW id \in DOMAIN log2, id > pushes[h], id \notin gone
          PROVE  \E g \in h .. n : IsIn(id, stack2[g])
      <3>1. CASE id = m.id
        BY <1>3, <1>4, <2>1, <3>1
      <3>2. CASE id # m.id
        <4>1. id \in DOMAIN log
          BY <1>5, <3>2
        <4>2. PICK g \in h .. n : IsIn(id, stack[g])
          BY <2>2, <2>6, <4>1
        <4>3. g \in 1 .. n - 1 \/ g = n
          BY <1>1
        <4> QED
          BY <1>3, <1>4, <4>2, <4>3
      <3> QED
        BY <3>1, <3>2
    <2> QED
      BY <2>3, <2>4, <2>5, <2>6
  <1>8. Partition(stack2, pushes, log2, gone)
    BY <1>1, <1>4, <1>7 DEF Partition
  <1> QED
    BY <1>8 DEF stack2, log2

-----------------------------------------------------------------------------
(* What nasm_issue_error does with messages that are newer than all that   *)
(* was shown and all that is buffered.                                     *)

LEMMA IssueKeepsPlaces ==
    ASSUME NEW shown \in Seq(Message), NEW waiting \in Seq(Message),
           NEW messages \in Seq(Message), NEW log, NEW gone,
           InPlace(shown, waiting, log, gone),
           AsReported(messages, log, gone), Ordered(messages),
           Precedes(shown, messages), Precedes(waiting, messages)
    PROVE  /\ InPlace(shown, waiting \o messages, log, gone)
           /\ InPlace(shown \o (waiting \o messages), <<>>, log, gone)
  <1> DEFINE more == waiting \o messages
  <1>1. more \in Seq(Message)
    BY Joined
  <1>2. AsReported(more, log, gone) /\ Ordered(more)
    BY PlacesJoined DEF InPlace
  <1>3. Precedes(shown, more)
    BY PrecedesJoined DEF InPlace
  <1> HIDE DEF more
  <1>4. AsReported(shown \o more, log, gone) /\ Ordered(shown \o more)
    BY <1>1, <1>2, <1>3, PlacesJoined DEF InPlace
  <1>5. InPlace(shown, more, log, gone) /\ InPlace(shown \o more, <<>>, log, gone)
    BY <1>2, <1>3, <1>4, EmptyList DEF InPlace
  <1> QED
    BY <1>5 DEF more

(* The buffer and the output after messages were issued; nothing is lost.  *)
LEMMA IssueMoves ==
    ASSUME MessageTypes, NEW messages \in Seq(Message), Issue(messages),
           ~buffering => warn_list = <<>>
    PROVE  /\ \/ /\ buffering /\ \A i \in DOMAIN messages : Bufferable(messages[i])
                 /\ buffering' = TRUE /\ written' = written
                 /\ warn_list' = warn_list \o messages
              \/ /\ ~buffering \/ \E i \in DOMAIN messages : ~Bufferable(messages[i])
                 /\ buffering' = FALSE /\ warn_list' = <<>>
                 /\ written' = written \o (warn_list \o messages)
           /\ \A id : IsIn(id, written) \/ IsIn(id, warn_list) \/ IsIn(id, messages)
                         => IsIn(id, written') \/ IsIn(id, warn_list')
           /\ \A n : UpTo(written, n) /\ UpTo(warn_list, n) /\ UpTo(messages, n)
                         => UpTo(written', n) /\ UpTo(warn_list', n)
  <1> DEFINE kept == buffering /\ \A i \in DOMAIN messages : Bufferable(messages[i])
             more == warn_list \o messages
  <1>1. /\ warn_list \in Seq(Message) /\ written \in Seq(Message)
        /\ buffering \in BOOLEAN
    BY DEF MessageTypes
  <1>2. /\ more \in Seq(Message)
        /\ \A id : IsIn(id, more) <=> IsIn(id, warn_list) \/ IsIn(id, messages)
        /\ \A n : UpTo(warn_list, n) /\ UpTo(messages, n) => UpTo(more, n)
    BY <1>1, Joined, PlacesJoined
  <1>3. CASE kept
    <2>1. buffering' = TRUE /\ written' = written /\ warn_list' = more
      BY <1>1, <1>3 DEF Issue
    <2> QED
      BY <1>2, <1>3, <2>1
  <1>4. CASE ~kept
    <2>1. buffering' = FALSE /\ written' = written \o more /\ warn_list' = <<>>
      BY <1>1, <1>4 DEF Issue, Flushed
    <2> HIDE DEF more
    <2>2. /\ \A id : IsIn(id, written \o more) <=> IsIn(id, written) \/ IsIn(id, more)
          /\ \A n : UpTo(written, n) /\ UpTo(more, n) => UpTo(written \o more, n)
      BY <1>1, <1>2, PlacesJoined
    <2>3. \A id : IsIn(id, written) \/ IsIn(id, warn_list) \/ IsIn(id, messages)
                     => IsIn(id, written') \/ IsIn(id, warn_list')
      BY <1>2, <2>1, <2>2
    <2>4. \A n : UpTo(written, n) /\ UpTo(warn_list, n) /\ UpTo(messages, n)
                     => UpTo(written', n) /\ UpTo(warn_list', n)
      BY <1>2, <2>1, <2>2, EmptyList
    <2>5. /\ buffering' = FALSE /\ warn_list' = <<>>
          /\ written' = written \o (warn_list \o messages)
      BY <2>1 DEF more
    <2> QED
      BY <1>4, <2>3, <2>4, <2>5
  <1> QED
    BY <1>3, <1>4

(* The undead stay silent.                                                 *)
LEMMA IssueSilences ==
    ASSUME MessageTypes, TypeOK, UndeadAreSilenced, ~buffering => warn_list = <<>>,
           NEW messages \in Seq(Message), Tidy(messages), Issue(messages),
           \A j \in DOMAIN messages : IsUndead(messages[j]) =>
               /\ "undead" \notin never
               /\ \A i \in 1 .. j - 1 : ~Silences(messages[i])
    PROVE  UndeadAreSilenced'
  <1> DEFINE kept == buffering /\ \A i \in DOMAIN messages : Bufferable(messages[i])
             more == warn_list \o messages
  <1>1. /\ warn_list \in Seq(Message) /\ written \in Seq(Message)
        /\ buffering \in BOOLEAN
    BY DEF MessageTypes
  <1>2. never \subseteq never'
    BY DEF Issue, NeverAfter
  <1>3. CASE kept
    <2>1. /\ buffering' = TRUE /\ written' = written /\ warn_list' = more
          /\ written = <<>>
      BY <1>1, <1>3 DEF Issue, UndeadAreSilenced
    <2>2. \A i \in DOMAIN more : Bufferable(more[i])
      <3>1. \A i \in DOMAIN more : \/ \E j \in DOMAIN warn_list : more[i] = warn_list[j]
                                   \/ \E j \in DOMAIN messages : more[i] = messages[j]
        BY <1>1, ElementsJoined
      <3> QED
        BY <1>3, <3>1 DEF UndeadAreSilenced
    <2>3. DOMAIN written' = {}
      BY <2>1
    <2> QED
      BY <2>1, <2>2, <2>3 DEF UndeadAreSilenced, NoUndeadAfterErrors, Bufferable
  <1>4. CASE ~kept
    <2>1. buffering' = FALSE /\ written' = written \o more /\ warn_list' = <<>>
      BY <1>1, <1>4 DEF Issue, Flushed
    <2>2. more \in Seq(Message) /\ Len(warn_list) \in Nat /\ Len(messages) \in Nat
          /\ Len(written) \in Nat
      BY <1>1, Joined
    <2> DEFINE w == Len(written)
               b == Len(written) + Len(warn_list)
    <2>3. ASSUME NEW i \in DOMAIN written'
          PROVE  \/ i \in DOMAIN written /\ written'[i] = written[i]
                 \/ i - w \in DOMAIN warn_list /\ written'[i] = warn_list[i - w]
                 \/ i - b \in DOMAIN messages /\ written'[i] = messages[i - b]
      <3>0. written' = written \o more
        BY <2>1
      <3> HIDE DEF more
      <3>1. \/ i \in DOMAIN written /\ written'[i] = written[i]
            \/ i - w \in DOMAIN more /\ written'[i] = more[i - w]
        BY <1>1, <2>2, <2>3, <3>0, Joined
      <3>2. ASSUME i - w \in DOMAIN more
            PROVE  \/ i - w \in DOMAIN warn_list /\ more[i - w] = warn_list[i - w]
                   \/ i - b \in DOMAIN messages /\ more[i - w] = messages[i - b]
        <4>1. \A j \in DOMAIN (warn_list \o messages) :
                 \/ j \in DOMAIN warn_list /\ (warn_list \o messages)[j] = warn_list[j]
                 \/ /\ j - Len(warn_list) \in DOMAIN messages
                    /\ (warn_list \o messages)[j] = messages[j - Len(warn_list)]
          BY <1>1, Joined
        <4>2. (i - w) - Len(warn_list) = i - b
          <5>1. i \in Nat
            BY <1>1, <2>2, <2>3, <3>0, Joined
          <5> QED
            BY <2>2, <5>1
        <4> QED
          BY <3>2, <4>1, <4>2 DEF more
      <3> QED
        BY <3>1, <3>2
    <2>4. \A i \in DOMAIN warn_list : ~Silences(warn_list[i])
      BY DEF UndeadAreSilenced, Bufferable, Silences, NONFATAL
    <2>5. ASSUME NEW i \in DOMAIN messages, Silences(messages[i])
          PROVE  "undead" \in never'
      <3>1. messages[i].type = NONFATAL /\ ~Bufferable(messages[i])
        BY <2>5 DEF Silences, Bufferable, NONFATAL
      <3>2. NONFATAL \in Counted(messages)
        BY <3>1, ErrorCounts
      <3> QED
        BY <3>2 DEF Issue, NeverAfter
    <2>6. \A i \in DOMAIN written' : Silences(written'[i]) => "undead" \in never'
      BY <1>2, <2>3, <2>4, <2>5 DEF UndeadAreSilenced
    <2>7. ASSUME NEW i \in DOMAIN written', NEW j \in DOMAIN written', i < j,
                 Silences(written'[i])
          PROVE  ~IsUndead(written'[j])
      <3>0. i \in Nat /\ j \in Nat
        BY <1>1, <2>1, <2>2, Joined
      <3>1. CASE i \in DOMAIN written /\ written'[i] = written[i]
        <4>1. "undead" \in never /\ ~buffering /\ warn_list = <<>>
          BY <2>7, <3>1 DEF UndeadAreSilenced
        <4>2. DOMAIN warn_list = {}
          BY <4>1
        <4>3. CASE j \in DOMAIN written /\ written'[j] = written[j]
          BY <2>7, <3>1, <4>3
             DEF UndeadAreSilenced, NoUndeadAfterErrors, Silences, IsUndead
        <4>4. CASE j - b \in DOMAIN messages /\ written'[j] = messages[j - b]
          BY <4>1, <4>4
        <4> QED
          BY <2>3, <4>2, <4>3, <4>4
      <3>2. CASE i - w \in DOMAIN warn_list /\ written'[i] = warn_list[i - w]
        BY <2>4, <2>7, <3>2
      <3>3. CASE i - b \in DOMAIN messages /\ written'[i] = messages[i - b]
        <4>1. i > b
          <5>1. DOMAIN messages = 1 .. Len(messages)
            BY LenProperties
          <5> QED
            BY <2>2, <3>0, <3>3, <5>1
        <4>2. ~(j \in DOMAIN written) /\ ~(j - w \in DOMAIN warn_list)
          <5>1. DOMAIN written = 1 .. w /\ DOMAIN warn_list = 1 .. Len(warn_list)
            BY <1>1, LenProperties
          <5> QED
            BY <2>2, <2>7, <3>0, <4>1, <5>1
        <4>3. j - b \in DOMAIN messages /\ written'[j] = messages[j - b]
          BY <2>3, <4>2
        <4>4. i - b \in 1 .. (j - b) - 1
          <5>1. DOMAIN messages = 1 .. Len(messages)
            BY LenProperties
          <5> QED
            BY <2>2, <2>7, <3>0, <3>3, <4>3, <5>1
        <4> QED
          BY <2>7, <3>3, <4>3, <4>4
      <3> QED
        BY <2>3, <3>1, <3>2, <3>3
    <2>8. DOMAIN warn_list' = {}
      BY <2>1
    <2>9. NoUndeadAfterErrors'
      BY <2>7 DEF NoUndeadAfterErrors, Silences, IsUndead
    <2> QED
      BY <2>1, <2>6, <2>8, <2>9 DEF UndeadAreSilenced
  <1> QED
    BY <1>3, <1>4

-----------------------------------------------------------------------------
(* The steps.                                                              *)

(* The parts of the invariant that are not about the verdict.              *)
WayInv ==
    /\ MessagesKeepTheirPlace
    /\ HoldsPartition
    /\ NothingIsLost
    /\ UndeadAreSilenced /\ UndeadAreNotHeld

(* When the last pass is over all it reported was shown or dropped.        *)
Settled ==
    stage # "reading" /\ outcome # "died" /\ (final \/ terminate_after_phase) =>
        \A id \in DOMAIN reported :
            reported[id].pass = pass => id \in dropped \/ IsIn(id, written)

LEMMA ShownIsSettled ==
    ShownUnlessDropped <=> /\ \A i \in DOMAIN written : written[i].id \notin dropped
                           /\ Settled
  BY DEF ShownUnlessDropped, Settled, IsIn

LEMMA HistoryFacts ==
    ASSUME HistoryInv
    PROVE  /\ ReportingInv /\ WayInv /\ MessageInv /\ MessageTypes /\ TypeOK
           /\ OtherTypes /\ PassesStartAlike
           /\ written \in Seq(Message) /\ warn_list \in Seq(Message)
           /\ reported \in Seq(Message) /\ errhold_stack \in Seq(Seq(Message))
           /\ pushedAt \in Seq(Nat) /\ pass \in Nat
           /\ Len(reported) \in Nat /\ DOMAIN reported = 1 .. Len(reported)
           /\ ~buffering => warn_list = <<>>
           /\ Settled /\ ShownUnlessDropped
           /\ DOMAIN errhold_stack = 1 .. Len(errhold_stack)
           /\ Len(errhold_stack) \in Nat
           /\ \A h \in 1 .. Len(errhold_stack) : errhold_stack[h] \in Seq(Message)
           /\ errhold_stack = <<>> <=> Len(errhold_stack) = 0
  <1>1. /\ ReportingInv /\ WayInv /\ MessageInv /\ MessageTypes /\ TypeOK
        /\ OtherTypes /\ PassesStartAlike
    BY Parts DEF HistoryInv, WayInv
  <1>2. /\ written \in Seq(Message) /\ warn_list \in Seq(Message)
        /\ reported \in Seq(Message) /\ errhold_stack \in Seq(Seq(Message))
        /\ pushedAt \in Seq(Nat) /\ pass \in Nat
    BY <1>1 DEF MessageTypes, OtherTypes
  <1>3. ~buffering => warn_list = <<>>
    BY <1>1 DEF MessageInv, NothingFatalWaits
  <1>4. Settled /\ ShownUnlessDropped
    BY <1>1, ShownIsSettled DEF WayInv, NothingIsLost
  <1>5. /\ Len(reported) \in Nat /\ DOMAIN reported = 1 .. Len(reported)
        /\ DOMAIN errhold_stack = 1 .. Len(errhold_stack)
        /\ Len(errhold_stack) \in Nat
        /\ \A h \in 1 .. Len(errhold_stack) : errhold_stack[h] \in Seq(Message)
        /\ errhold_stack = <<>> <=> Len(errhold_stack) = 0
    BY <1>2, LenProperties, ElementOfSeq, EmptySeq
  <1> QED
    BY <1>1, <1>2, <1>3, <1>4, <1>5

LEMMA HistoryInit == Init => HistoryInv
  <1> SUFFICES ASSUME Init PROVE HistoryInv
    OBVIOUS
  <1>1. /\ written = <<>> /\ warn_list = <<>> /\ reported = <<>> /\ dropped = {}
        /\ errhold_stack = <<>> /\ pushedAt = <<>> /\ ~final /\ stage = "between"
        /\ worst = 0 /\ ~buffering
    BY DEF Init
  <1>2. DOMAIN <<>> = {} /\ Len(<<>>) = 0
    BY EmptyList
  <1>3. MessagesKeepTheirPlace
    BY <1>1, <1>2, EmptyList DEF MessagesKeepTheirPlace, InPlace
  <1>4. 1 .. Len(<<>>) = {}
    BY <1>2
  <1>5. HoldsPartition
    BY <1>1, <1>4 DEF HoldsPartition, Partition
  <1>6. Settled
    BY <1>1, <1>2 DEF Settled
  <1>7. NothingIsLost
    BY <1>1, <1>2, <1>6, ShownIsSettled DEF NothingIsLost
  <1>8. UndeadAreSilenced /\ UndeadAreNotHeld
    BY <1>1, <1>2, <1>4 DEF UndeadAreSilenced, UndeadAreNotHeld, NoUndeadAfterErrors
  <1> QED
    BY <1>3, <1>5, <1>7, <1>8, ReportingInit DEF HistoryInv

(* Steps that touch no list.                                               *)
LEMMA HistoryUntouched ==
    ASSUME HistoryInv,
           UNCHANGED <<stage, outcome, pass, final, bufferVars, errhold_stack,
                       reported, dropped, pushedAt>>
    PROVE  WayInv'
  <1>1. UNCHANGED <<worst, never, buffering, warn_list, written>>
    BY DEF bufferVars
  <1>2. WayInv
    BY HistoryFacts
  <1>3. MessagesKeepTheirPlace' /\ HoldsPartition'
    BY <1>1, <1>2 DEF WayInv, MessagesKeepTheirPlace, HoldsPartition
  <1>4. NothingIsLost'
    BY <1>1, <1>2 DEF WayInv, NothingIsLost, IsSomewhere, ShownUnlessDropped,
                      terminate_after_phase
  <1>5. UndeadAreSilenced' /\ UndeadAreNotHeld'
    BY <1>1, <1>2 DEF WayInv, UndeadAreSilenced, UndeadAreNotHeld, Bufferable,
                      NoUndeadAfterErrors
  <1> QED
    BY <1>3, <1>4, <1>5 DEF WayInv

(* No hold, no partition to speak of.                                      *)
LEMMA NoHolds ==
    ASSUME NEW log, NEW gone
    PROVE  Partition(<<>>, <<>>, log, gone)
  <1>1. 1 .. Len(<<>>) = {}
    BY EmptyList
  <1> QED
    BY <1>1 DEF Partition

(* With the holds as they are now.                                         *)
LEMMA HoldsNow ==
    ASSUME HistoryInv, stage # "done"
    PROVE  /\ Partition(errhold_stack, pushedAt, reported, dropped)
           /\ Len(pushedAt) = Len(errhold_stack)
           /\ \A h \in 1 .. Len(errhold_stack) :
                 /\ UpTo(written, pushedAt[h]) /\ UpTo(warn_list, pushedAt[h])
                 /\ AsReported(errhold_stack[h], reported, dropped)
                 /\ Ordered(errhold_stack[h])
                 /\ Since(errhold_stack[h], pushedAt[h]) /\ pushedAt[h] \in Nat
  <1>1. HoldsPartition /\ pushedAt \in Seq(Nat)
    BY HistoryFacts DEF WayInv
  <1> QED
    BY <1>1, ElementOfSeq DEF HoldsPartition, Partition

LEMMA HistoryPasses ==
    ASSUME HistoryInv, BeginPass \/ EndPass \/ CleanUp \/ Finish
    PROVE  WayInv'
  <1>1. /\ WayInv /\ MessageInv /\ MessageTypes /\ Settled /\ ShownUnlessDropped
        /\ PassesStartAlike /\ pass \in Nat
        /\ ~buffering => warn_list = <<>>
    BY HistoryFacts
  <1>2. /\ stage \in {"between", "reading", "cleanup"} /\ outcome = "running"
    BY <1>1 DEF BeginPass, EndPass, CleanUp, Finish, MessageInv, ErrorsCount
  <1>3. errhold_stack = <<>>
    BY <1>1 DEF BeginPass, EndPass, CleanUp, Finish, MessageInv, NothingFatalWaits
  <1>4. UNCHANGED <<written, errhold_stack, reported, dropped, pushedAt>>
    BY DEF BeginPass, EndPass, CleanUp, Finish, bufferVars
  <1>5. /\ Partition(errhold_stack, pushedAt, reported, dropped)
        /\ 1 .. Len(errhold_stack) = {}
    BY <1>2, <1>3, HoldsNow, EmptyList
  <1>6. HoldsPartition' /\ UndeadAreNotHeld'
    BY <1>4, <1>5 DEF HoldsPartition, UndeadAreNotHeld
  <1>7. \A i \in DOMAIN written : written[i].id \notin dropped
    BY <1>1 DEF ShownUnlessDropped
  <1>8. CASE BeginPass
    <2>1. written = <<>> /\ warn_list = <<>> /\ warn_list' = warn_list
      BY <1>1, <1>2, <1>8 DEF BeginPass, MessageInv, SilentUntilError,
         NothingFatalWaits, PassesStartAlike
    <2>2. stage' = "reading" /\ pass' = pass + 1 /\ (final' => ~buffering')
      BY <1>8 DEF BeginPass
    <2>3. \A id \in DOMAIN reported : reported[id].pass <= pass
      BY <1>1 DEF WayInv, MessagesKeepTheirPlace
    <2>4. \A id \in DOMAIN reported : reported[id] \in Message
      BY HistoryFacts, Ids
    <2>5. \A id \in DOMAIN reported : reported[id].pass <= pass' /\ reported[id].pass # pass'
      BY <1>1, <2>2, <2>3, <2>4 DEF Message
    <2>6. MessagesKeepTheirPlace'
      BY <1>1, <1>4, <2>1, <2>5 DEF WayInv, MessagesKeepTheirPlace
    <2>7. Settled'
      BY <2>2 DEF Settled
    <2>8. ShownUnlessDropped'
      <3>1. ShownUnlessDropped' <=>
               /\ \A i \in DOMAIN written' : written'[i].id \notin dropped'
               /\ Settled'
        BY DEF ShownUnlessDropped, Settled, IsIn
      <3> QED
        BY <1>4, <1>7, <2>7, <3>1
    <2>9. NothingIsLost'
      BY <1>4, <2>2, <2>5, <2>8 DEF NothingIsLost
    <2>10. UndeadAreSilenced'
      <3>1. DOMAIN written' = {} /\ DOMAIN warn_list' = {} /\ written' = <<>>
        BY <1>4, <2>1
      <3> QED
        BY <3>1 DEF UndeadAreSilenced, NoUndeadAfterErrors
    <2> QED
      BY <1>6, <2>6, <2>9, <2>10 DEF WayInv
  <1>9. CASE ~BeginPass
    <2>1. /\ UNCHANGED <<pass, final, worst, never>>
          /\ warn_list' = warn_list \/ warn_list' = <<>>
          /\ buffering' => buffering
          /\ stage' # "reading"
      <3>1. CASE EndPass
        BY <3>1 DEF EndPass, passVars
      <3>2. CASE CleanUp \/ Finish
        <4>1. UNCHANGED <<passVars, bufferVars>> /\ stage' # "reading"
          BY <3>2 DEF CleanUp, Finish
        <4> QED
          BY <4>1, Zenon DEF passVars, bufferVars
      <3> QED
        BY <1>9, <3>1, <3>2
    <2>2. MessagesKeepTheirPlace'
      BY <1>1, <1>4, <2>1, EmptyList DEF WayInv, MessagesKeepTheirPlace, InPlace
    <2>3. warn_list' = <<>>
      <3>1. CASE EndPass
        BY <3>1 DEF EndPass
      <3>2. CASE CleanUp \/ Finish
        <4>1. stage \in {"between", "cleanup"}
          BY <3>2 DEF CleanUp, Finish
        <4>2. warn_list = <<>>
          BY <1>1, <4>1 DEF PassesStartAlike
        <4> QED
          BY <2>1, <4>2
      <3> QED
        BY <1>9, <3>1, <3>2
    <2>4. ASSUME final \/ terminate_after_phase, NEW id \in DOMAIN reported,
                 reported[id].pass = pass
          PROVE  id \in dropped \/ IsIn(id, written)
      <3>1. CASE stage = "reading"
        <4>1. IsSomewhere(id)
          BY <1>1, <2>4, <3>1 DEF WayInv, NothingIsLost
        <4>2. ~buffering
          <5>1. CASE final
            BY <1>1, <5>1 DEF WayInv, NothingIsLost
          <5>2. CASE terminate_after_phase
            <6>1. ErrorShown
              BY <1>1, <3>1, <5>2 DEF MessageInv, ErrorsCount
            <6>2. written # <<>>
              BY <6>1 DEF ErrorShown
            <6> QED
              BY <1>1, <6>2 DEF WayInv, UndeadAreSilenced
          <5> QED
            BY <2>4, <5>1, <5>2
        <4>3. ~IsIn(id, warn_list)
          BY <1>1, <4>2, EmptyList
        <4> QED
          BY <1>5, <4>1, <4>3 DEF IsSomewhere
      <3>2. CASE stage # "reading"
        BY <1>1, <1>2, <2>4, <3>2 DEF Settled
      <3> QED
        BY <3>1, <3>2
    <2>5. Settled'
      BY <1>4, <2>1, <2>4 DEF Settled, terminate_after_phase
    <2>6. ShownUnlessDropped'
      <3>1. ShownUnlessDropped' <=>
               /\ \A i \in DOMAIN written' : written'[i].id \notin dropped'
               /\ Settled'
        BY DEF ShownUnlessDropped, Settled, IsIn
      <3> QED
        BY <1>4, <1>7, <2>5, <3>1
    <2>7. NothingIsLost'
      BY <1>1, <1>3, <1>4, <2>1, <2>3, <2>6 DEF WayInv, NothingIsLost
    <2>8. UndeadAreSilenced'
      <3>1. DOMAIN warn_list' = {}
        BY <2>3
      <3> QED
        BY <1>1, <1>4, <2>1, <3>1 DEF WayInv, UndeadAreSilenced, NoUndeadAfterErrors
    <2> QED
      BY <1>6, <2>2, <2>7, <2>8 DEF WayInv
  <1> QED
    BY <1>8, <1>9

(* A message that is reported, suppressed or not, held or not.             *)
LEMMA VerrorHistory ==
    ASSUME HistoryInv, stage \in {"reading", "cleanup"},
           NEW state \in WarningStates, NEW k,
           k \in [severity : Severities, class : Classes, flags : SUBSET Flags],
           "undead" \in k.flags => k.severity < FATAL /\ errhold_stack = <<>>,
           NEW deadBranch \in BOOLEAN, NEW inMacro \in BOOLEAN,
           nasm_verror(state, k, deadBranch, inMacro),
           UNCHANGED <<pass, final, dropped, pushedAt>>
    PROVE  WayInv'
  <1>1. /\ WayInv /\ MessageInv /\ MessageTypes /\ TypeOK /\ Settled
        /\ ShownUnlessDropped /\ PassesStartAlike /\ pass \in Nat
        /\ written \in Seq(Message) /\ warn_list \in Seq(Message)
        /\ reported \in Seq(Message) /\ errhold_stack \in Seq(Seq(Message))
        /\ pushedAt \in Seq(Nat)
        /\ Len(reported) \in Nat /\ DOMAIN reported = 1 .. Len(reported)
        /\ ~buffering => warn_list = <<>>
        /\ Len(errhold_stack) \in Nat
        /\ errhold_stack = <<>> <=> Len(errhold_stack) = 0
    BY HistoryFacts
  <1>2. CASE is_suppressed(state, k, deadBranch)
    <2>1. UNCHANGED <<stage, outcome, bufferVars, errhold_stack, reported>>
      BY <1>2 DEF nasm_verror
    <2> QED
      BY <2>1, HistoryUntouched
  <1>3. CASE ~is_suppressed(state, k, deadBranch)
    <2> DEFINE m == [id |-> Len(reported) + 1, type |-> true_error_type(state, k),
                     flags |-> k.flags, listmacro |-> FALSE, pass |-> pass]
    <2>1. true_error_type(state, k) \in Severities
      BY DEF true_error_type, Severities
    <2>2. /\ m \in Message /\ ~m.listmacro /\ m.pass = pass
          /\ m.id = Len(reported) + 1 /\ m.flags = k.flags /\ m.type \in Severities
          /\ m.type = FATAL => k.severity = FATAL
      BY <1>1, <2>1 DEF Message, true_error_type, NONFATAL, FATAL
    <2>3. IsUndead(m) => errhold_stack = <<>> /\ "undead" \notin never
      BY <1>3, <2>2 DEF is_suppressed, IsUndead
    <2>4. /\ reported' = Append(reported, m)
          /\ IF IsHeld(m)
             THEN /\ errhold_stack' = Append(Below(errhold_stack),
                                   Top(errhold_stack) \o Lines(m, TRUE, inMacro))
                  /\ UNCHANGED bufferVars
             ELSE /\ Issue(Lines(m, FALSE, inMacro))
                  /\ UNCHANGED errhold_stack
          /\ IF m.type = FATAL
             THEN stage' = "done" /\ outcome' = "died"
             ELSE UNCHANGED <<stage, outcome>>
      BY <1>3 DEF nasm_verror
    <2> HIDE DEF m
    <2>5. outcome = "running" /\ stage # "done"
      BY <1>1 DEF MessageInv, ErrorsCount
    <2>lines. \A held \in BOOLEAN :
              /\ Lines(m, held, inMacro) \in Seq(Message)
              /\ Tidy(Lines(m, held, inMacro))
              /\ \A i \in DOMAIN Lines(m, held, inMacro) :
                    /\ Lines(m, held, inMacro)[i].id = m.id
                    /\ Lines(m, held, inMacro)[i].type = m.type
                    /\ Lines(m, held, inMacro)[i].flags = m.flags
                    /\ [Lines(m, held, inMacro)[i] EXCEPT !.listmacro = FALSE] = m
              /\ IsIn(m.id, Lines(m, held, inMacro))
              /\ Silences(m) /\ IsUndead(m) /\ ~held => Lines(m, held, inMacro) = <<m>>
      <3> TAKE held \in BOOLEAN
      <3>1. m \in Message /\ ~m.listmacro /\ m.pass = pass
        BY <2>2
      <3>2. /\ Lines(m, held, inMacro) \in Seq(Message)
            /\ Tidy(Lines(m, held, inMacro))
            /\ \A i \in DOMAIN Lines(m, held, inMacro) :
                  /\ Lines(m, held, inMacro)[i].type = m.type
                  /\ Lines(m, held, inMacro)[i].flags = m.flags
        BY <3>1, LinesOf
      <3> QED
        BY <3>1, <3>2, LinesInPlace
    <2>6. /\ reported' \in Seq(Message) /\ Len(reported') = Len(reported) + 1
          /\ DOMAIN reported' = 1 .. Len(reported) + 1
          /\ \A id \in DOMAIN reported : reported'[id] = reported[id]
          /\ reported'[Len(reported) + 1] = m
          /\ \A s : AsReported(s, reported, dropped) => AsReported(s, reported', dropped')
      <3>1. /\ Append(reported, m) \in Seq(Message)
            /\ Len(Append(reported, m)) = Len(reported) + 1
            /\ DOMAIN Append(reported, m) = 1 .. Len(reported) + 1
            /\ \A id \in DOMAIN reported : Append(reported, m)[id] = reported[id]
            /\ Append(reported, m)[Len(reported) + 1] = m
            /\ \A s : AsReported(s, reported, dropped)
                          => AsReported(s, Append(reported, m), dropped)
        BY <1>1, <2>2, RecordGrows
      <3>2. reported' = Append(reported, m) /\ dropped' = dropped
        BY <2>4
      <3> QED
        BY <3>1, <3>2
    <2>7. /\ dropped \subseteq DOMAIN reported /\ dropped' = dropped
          /\ m.id \notin dropped /\ dropped' \subseteq DOMAIN reported'
          /\ \A id \in DOMAIN reported' : id \in DOMAIN reported \/ id = m.id
          /\ \A id \in DOMAIN reported' : reported'[id].id = id /\ reported'[id].pass <= pass'
      <3>1. /\ dropped \subseteq DOMAIN reported
            /\ \A id \in DOMAIN reported : reported[id].id = id /\ reported[id].pass <= pass
        BY <1>1 DEF WayInv, MessagesKeepTheirPlace
      <3>2. m.id \notin DOMAIN reported /\ DOMAIN reported \subseteq DOMAIN reported'
        BY <1>1, <2>2, <2>6
      <3>3. \A id \in DOMAIN reported' : id \in DOMAIN reported \/ id = m.id
        BY <1>1, <2>2, <2>6
      <3>4. reported'[m.id] = m /\ m.pass <= pass'
        BY <1>1, <2>2, <2>6
      <3> QED
        BY <2>6, <3>1, <3>2, <3>3, <3>4
    <2>8. InPlace(written, warn_list, reported', dropped')
      BY <1>1, <2>6 DEF WayInv, MessagesKeepTheirPlace, InPlace
    <2>9. CASE IsHeld(m)
      <3> DEFINE top == Top(errhold_stack) \o Lines(m, TRUE, inMacro)
      <3>1. errhold_stack # <<>> /\ m.type # FATAL
        BY <2>9 DEF IsHeld, NONFATAL, FATAL
      <3>2. stage = "reading"
        BY <1>1, <3>1 DEF MessageInv, NothingFatalWaits
      <3>3. /\ UNCHANGED <<stage, outcome, bufferVars>>
            /\ UNCHANGED <<worst, never, buffering, warn_list, written>>
        BY <2>4, <2>9, <3>1 DEF bufferVars
      <3>4. errhold_stack' = Append(Below(errhold_stack), top)
        BY <2>4, <2>9
      <3>5. Partition(errhold_stack', pushedAt', reported', dropped')
        <4>1. /\ Lines(m, TRUE, inMacro) \in Seq(Message) /\ IsIn(m.id, Lines(m, TRUE, inMacro))
              /\ \A i \in DOMAIN Lines(m, TRUE, inMacro) :
                    /\ Lines(m, TRUE, inMacro)[i].id = m.id
                    /\ [Lines(m, TRUE, inMacro)[i] EXCEPT !.listmacro = FALSE] = m
          BY <2>lines
        <4>2. /\ errhold_stack \in Seq(Seq(Message)) /\ pushedAt \in Seq(Nat)
              /\ reported \in Seq(Message)
              /\ Partition(errhold_stack, pushedAt, reported, dropped)
          BY <1>1, <3>1, <3>2, HoldsNow
        <4>3. /\ m \in Message /\ m.id = Len(reported) + 1 /\ m.id \notin dropped
              /\ reported' = Append(reported, m) /\ UNCHANGED <<dropped, pushedAt>>
          BY <2>2, <2>4, <2>7
        <4> QED
          BY <3>1, <3>4, <4>1, <4>2, <4>3, PartitionReport
      <3>6. /\ top \in Seq(Message)
            /\ errhold_stack' \in Seq(Seq(Message))
            /\ Len(errhold_stack') = Len(errhold_stack)
            /\ \A h \in 1 .. Len(errhold_stack) :
                  errhold_stack'[h] = errhold_stack[h] \/ errhold_stack'[h] = top
            /\ \E h \in 1 .. Len(errhold_stack) : Top(errhold_stack) = errhold_stack[h]
        <4>1. top \in Seq(Message)
          BY <1>1, <2>lines, <3>1, TopReplaced, Joined
        <4> HIDE DEF top
        <4>2. /\ errhold_stack' \in Seq(Seq(Message))
              /\ DOMAIN errhold_stack' = DOMAIN errhold_stack
              /\ \A h \in DOMAIN errhold_stack :
                    errhold_stack'[h] = errhold_stack[h] \/ errhold_stack'[h] = top
              /\ \E h \in DOMAIN errhold_stack : Top(errhold_stack) = errhold_stack[h]
          <5>1. /\ Append(Below(errhold_stack), top) \in Seq(Seq(Message))
                /\ DOMAIN Append(Below(errhold_stack), top) = DOMAIN errhold_stack
                /\ \A h \in DOMAIN errhold_stack :
                      \/ Append(Below(errhold_stack), top)[h] = errhold_stack[h]
                      \/ Append(Below(errhold_stack), top)[h] = top
                /\ \E h \in DOMAIN errhold_stack : Top(errhold_stack) = errhold_stack[h]
            BY <1>1, <3>1, <4>1, TopReplaced
          <5> QED
            BY <3>4, <5>1
        <4>3. Len(errhold_stack') = Len(errhold_stack)
              /\ DOMAIN errhold_stack = 1 .. Len(errhold_stack)
          BY <1>1, <4>2, LenProperties
        <4> QED
          BY <4>1, <4>2, <4>3
      <3>7. MessagesKeepTheirPlace'
        BY <2>7, <2>8, <3>3 DEF MessagesKeepTheirPlace
      <3>8. HoldsPartition'
        BY <3>2, <3>3, <3>5, <3>6, HoldsNow DEF HoldsPartition
      <3>9. UndeadAreNotHeld'
        <4>1. \A i \in DOMAIN top : ~IsUndead(top[i])
          <5>1. \A i \in DOMAIN Lines(m, TRUE, inMacro) : ~IsUndead(Lines(m, TRUE, inMacro)[i])
            BY <2>3, <2>lines, <3>1 DEF IsUndead
          <5>2. \A i \in DOMAIN Top(errhold_stack) : ~IsUndead(Top(errhold_stack)[i])
            BY <1>1, <3>6 DEF WayInv, UndeadAreNotHeld
          <5>3. \A i \in DOMAIN top :
                   \/ \E j \in DOMAIN Top(errhold_stack) : top[i] = Top(errhold_stack)[j]
                   \/ \E j \in DOMAIN Lines(m, TRUE, inMacro) :
                         top[i] = Lines(m, TRUE, inMacro)[j]
            <6>1. Top(errhold_stack) \in Seq(Message) /\ Lines(m, TRUE, inMacro) \in Seq(Message)
              BY <1>1, <2>lines, <3>1, TopReplaced
            <6> QED
              BY <6>1, ElementsJoined
          <5> QED
            BY <5>1, <5>2, <5>3
        <4> HIDE DEF top
        <4> QED
          BY <1>1, <3>6, <4>1 DEF WayInv, UndeadAreNotHeld
      <3>10. UndeadAreSilenced'
        BY <1>1, <3>3 DEF WayInv, UndeadAreSilenced, NoUndeadAfterErrors, Bufferable
      <3>11. \A id \in DOMAIN reported' : reported'[id].pass = pass' => IsSomewhere(id)'
        <4>1. SUFFICES ASSUME NEW id \in DOMAIN reported', reported'[id].pass = pass',
                              id \notin dropped'
                       PROVE  IsSomewhere(id)'
          BY DEF IsSomewhere
        <4>2. 1 \in 1 .. Len(errhold_stack) /\ Len(errhold_stack') = Len(errhold_stack)
          BY <1>1, <3>1, <3>6
        <4>3. CASE id > pushedAt[1]
          <5>1. \E g \in 1 .. Len(errhold_stack') : IsIn(id, errhold_stack'[g])
            BY <3>5, <4>1, <4>2, <4>3 DEF Partition
          <5> QED
            BY <5>1 DEF IsSomewhere
        <4>4. CASE ~(id > pushedAt[1])
          <5>1. pushedAt[1] <= Len(reported) /\ pushedAt[1] \in Nat
            BY <3>2, <4>2, HoldsNow DEF Partition
          <5>2. id # m.id
            BY <1>1, <2>2, <4>4, <5>1
          <5>3. id \in DOMAIN reported
            BY <2>7, <5>2
          <5>4. IsSomewhere(id)
            BY <1>1, <2>6, <3>2, <4>1, <5>3 DEF WayInv, NothingIsLost
          <5>5. ASSUME NEW h \in 1 .. Len(errhold_stack), IsIn(id, errhold_stack[h])
                PROVE  FALSE
            <6>1. h = 1 \/ 1 \in 1 .. h - 1
              BY <1>1
            <6>2. pushedAt[1] <= pushedAt[h] /\ pushedAt[h] \in Nat
              BY <3>2, <4>2, <5>1, <6>1, HoldsNow DEF Partition
            <6>3. Since(errhold_stack[h], pushedAt[h])
              BY <3>2, HoldsNow
            <6>4. pushedAt[h] < id
              BY <5>5, <6>3 DEF Since, IsIn
            <6>5. id \in Nat
              BY <2>6, <1>1
            <6> QED
              BY <4>4, <5>1, <6>2, <6>4, <6>5
          <5> QED
            BY <2>7, <3>3, <4>1, <5>4, <5>5 DEF IsSomewhere
        <4> QED
          BY <4>3, <4>4
      <3>12. NothingIsLost'
        <4>1. stage' = "reading" /\ (final' => ~buffering')
          BY <1>1, <3>2, <3>3 DEF WayInv, NothingIsLost
        <4>2. \A i \in DOMAIN written' : written'[i].id \notin dropped'
          BY <2>8, <3>3 DEF InPlace, AsReported
        <4>3. ShownUnlessDropped'
          BY <4>1, <4>2 DEF ShownUnlessDropped
        <4> QED
          BY <3>11, <4>1, <4>3 DEF NothingIsLost
      <3> QED
        BY <3>7, <3>8, <3>9, <3>10, <3>12 DEF WayInv
    <2>10. CASE ~IsHeld(m)
      <3> DEFINE lines == Lines(m, FALSE, inMacro)
      <3>1. /\ lines \in Seq(Message) /\ Tidy(lines) /\ IsIn(m.id, lines)
            /\ \A i \in DOMAIN lines : /\ lines[i].id = m.id /\ lines[i].type = m.type
                                       /\ lines[i].flags = m.flags
                                       /\ [lines[i] EXCEPT !.listmacro = FALSE] = m
            /\ Silences(m) /\ IsUndead(m) => lines = <<m>>
        BY <2>lines
      <3> HIDE DEF lines
      <3>2. Issue(lines) /\ errhold_stack' = errhold_stack
        BY <2>4, <2>10 DEF lines
      <3>3. errhold_stack = <<>> \/ m.type = FATAL
        BY <2>2, <2>10 DEF IsHeld, Severities, WARNING, NONFATAL, FATAL
      <3>4. m.type # FATAL => UNCHANGED <<stage, outcome>>
        BY <2>4
      <3>5. m.type = FATAL => stage' = "done" /\ outcome' = "died"
        BY <2>4
      <3>6. /\ \/ /\ buffering
                  /\ buffering' = TRUE /\ written' = written
                  /\ warn_list' = warn_list \o lines
               \/ /\ buffering' = FALSE /\ warn_list' = <<>>
                  /\ written' = written \o (warn_list \o lines)
            /\ \A id : IsIn(id, written) \/ IsIn(id, warn_list) \/ IsIn(id, lines)
                          => IsIn(id, written') \/ IsIn(id, warn_list')
        BY <1>1, <3>1, <3>2, IssueMoves
      <3>7. MessagesKeepTheirPlace'
        <4>1. AsReported(lines, reported', dropped')
          <5>1. \A i \in DOMAIN lines : /\ lines[i].id \in DOMAIN reported'
                                        /\ lines[i].id \notin dropped'
                                        /\ reported'[lines[i].id] = m
            BY <1>1, <2>2, <2>6, <2>7, <3>1
          <5> QED
            BY <3>1, <5>1 DEF AsReported
        <4>2. Ordered(lines) /\ Since(lines, Len(reported))
          BY <1>1, <2>2, <3>1 DEF Ordered, Since
        <4>3. UpTo(written, Len(reported)) /\ UpTo(warn_list, Len(reported))
          BY <1>1, UpToEnd DEF WayInv, MessagesKeepTheirPlace, InPlace
        <4>4. Precedes(written, lines) /\ Precedes(warn_list, lines)
          BY <1>1, <3>1, <4>2, <4>3, PrecedesAt
        <4>5. /\ InPlace(written, warn_list \o lines, reported', dropped')
              /\ InPlace(written \o (warn_list \o lines), <<>>, reported', dropped')
          BY <1>1, <2>8, <3>1, <4>1, <4>2, <4>4, IssueKeepsPlaces
        <4>6. InPlace(written', warn_list', reported', dropped')
          BY <3>6, <4>5
        <4> QED
          BY <2>7, <4>6 DEF MessagesKeepTheirPlace
      <3>8. HoldsPartition'
        <4>1. CASE m.type = FATAL
          BY <3>5, <4>1 DEF HoldsPartition
        <4>2. CASE m.type # FATAL
          <5>1. errhold_stack' = <<>> /\ pushedAt' = <<>> /\ 1 .. Len(errhold_stack') = {}
            <6>1. errhold_stack = <<>> /\ Len(pushedAt) = 0
              BY <1>1, <2>5, <3>3, <4>2, HoldsNow
            <6>2. pushedAt = <<>>
              BY <1>1, <6>1, EmptySeq
            <6> QED
              BY <3>2, <6>1, <6>2
          <5> QED
            BY <5>1, NoHolds DEF HoldsPartition
        <4> QED
          BY <4>1, <4>2
      <3>9. UndeadAreNotHeld'
        BY <1>1, <3>2 DEF WayInv, UndeadAreNotHeld
      <3>10. UndeadAreSilenced'
        <4>1. ASSUME NEW j \in DOMAIN lines, IsUndead(lines[j])
              PROVE  /\ "undead" \notin never
                     /\ \A i \in 1 .. j - 1 : ~Silences(lines[i])
          <5>1. IsUndead(m)
            BY <3>1, <4>1 DEF IsUndead
          <5>2. CASE Silences(m)
            <6>1. lines = <<m>> /\ DOMAIN <<m>> = {1}
              BY <3>1, <5>1, <5>2
            <6>2. 1 .. j - 1 = {}
              BY <4>1, <6>1
            <6> QED
              BY <2>3, <5>1, <6>2
          <5>3. CASE ~Silences(m)
            <6>1. \A i \in DOMAIN lines : ~Silences(lines[i])
              BY <3>1, <5>3 DEF Silences
            <6>2. \A i \in 1 .. j - 1 : i \in DOMAIN lines
              BY <3>1, LenProperties
            <6> QED
              BY <2>3, <5>1, <6>1, <6>2
          <5> QED
            BY <5>2, <5>3
        <4> QED
          BY <1>1, <3>1, <3>2, <4>1, IssueSilences DEF WayInv
      <3>11. NothingIsLost'
        <4>1. \A i \in DOMAIN written' : written'[i].id \notin dropped'
          BY <3>7 DEF MessagesKeepTheirPlace, InPlace, AsReported
        <4>2. final' => ~buffering'
          BY <1>1, <3>6 DEF WayInv, NothingIsLost
        <4>3. IsIn(m.id, written') \/ IsIn(m.id, warn_list')
          BY <3>1, <3>6
        <4>4. CASE stage' = "reading"
          <5>1. stage = "reading" /\ errhold_stack = <<>>
            BY <2>5, <3>3, <3>4, <3>5, <4>4
          <5>2. 1 .. Len(errhold_stack) = {}
            BY <5>1, <1>1
          <5>3. ASSUME NEW id \in DOMAIN reported', reported'[id].pass = pass'
                PROVE  IsSomewhere(id)'
            <6>1. CASE id = m.id
              BY <4>3, <6>1 DEF IsSomewhere
            <6>2. CASE id # m.id
              <7>1. id \in DOMAIN reported /\ reported[id].pass = pass
                BY <2>6, <2>7, <5>3, <6>2
              <7>2. IsSomewhere(id)
                BY <1>1, <5>1, <7>1 DEF WayInv, NothingIsLost
              <7>3. id \in dropped \/ IsIn(id, written) \/ IsIn(id, warn_list)
                BY <5>2, <7>2 DEF IsSomewhere
              <7> QED
                BY <2>7, <3>6, <7>3 DEF IsSomewhere
            <6> QED
              BY <6>1, <6>2
          <5> QED
            BY <4>1, <4>2, <4>4, <5>3 DEF NothingIsLost, ShownUnlessDropped
        <4>5. CASE stage' # "reading" /\ outcome' # "died"
          <5>1. stage = "cleanup" /\ stage' = "cleanup" /\ errhold_stack = <<>>
                /\ outcome' = outcome
            BY <2>5, <3>3, <3>4, <3>5, <4>5
          <5>2. ~buffering /\ warn_list' = <<>> /\ warn_list = <<>>
            BY <1>1, <3>6, <5>1 DEF PassesStartAlike
          <5>3. final \/ terminate_after_phase
            BY <1>1, <5>1 DEF MessageInv, SilentUntilError
          <5>4. ASSUME NEW id \in DOMAIN reported', reported'[id].pass = pass'
                PROVE  id \in dropped' \/ IsIn(id, written')
            <6>1. CASE id = m.id
              BY <4>3, <5>2, <6>1, EmptyList
            <6>2. CASE id # m.id
              <7>1. id \in DOMAIN reported /\ reported[id].pass = pass
                BY <2>6, <2>7, <5>4, <6>2
              <7>2. id \in dropped \/ IsIn(id, written)
                BY <1>1, <2>5, <5>1, <5>3, <7>1 DEF Settled
              <7> QED
                BY <2>7, <3>6, <5>2, <7>2, EmptyList
            <6> QED
              BY <6>1, <6>2
          <5>5. Settled'
            BY <5>4 DEF Settled
          <5>6. ShownUnlessDropped'
            BY <4>1, <5>5 DEF ShownUnlessDropped, Settled, IsIn
          <5> QED
            BY <3>2, <4>2, <5>1, <5>2, <5>6 DEF NothingIsLost
        <4>6. CASE stage' # "reading" /\ outcome' = "died"
          BY <4>1, <4>2, <4>6 DEF NothingIsLost, ShownUnlessDropped
        <4> QED
          BY <4>4, <4>5, <4>6
      <3> QED
        BY <3>7, <3>8, <3>9, <3>10, <3>11 DEF WayInv
    <2> QED
      BY <2>9, <2>10
  <1> QED
    BY <1>2, <1>3

(* Holds come and go while a program is read, and write nothing.           *)
LEMMA HoldsMoved ==
    ASSUME HistoryInv, stage = "reading",
           UNCHANGED <<stage, outcome, pass, final, bufferVars, reported>>,
           InPlace(written, warn_list, reported, dropped'),
           dropped' \subseteq DOMAIN reported,
           Partition(errhold_stack', pushedAt', reported, dropped'),
           \A h \in 1 .. Len(errhold_stack') :
               UpTo(written, pushedAt'[h]) /\ UpTo(warn_list, pushedAt'[h]),
           \A id \in DOMAIN reported : IsSomewhere(id) => IsSomewhere(id)',
           UndeadAreNotHeld'
    PROVE  WayInv'
  <1>1. UNCHANGED <<worst, never, buffering, warn_list, written>>
    BY DEF bufferVars
  <1>2. WayInv
    BY HistoryFacts
  <1>3. MessagesKeepTheirPlace'
    BY <1>1, <1>2 DEF WayInv, MessagesKeepTheirPlace
  <1>4. HoldsPartition'
    BY <1>1 DEF HoldsPartition
  <1>5. UndeadAreSilenced'
    BY <1>1, <1>2 DEF WayInv, UndeadAreSilenced, NoUndeadAfterErrors, Bufferable
  <1>6. \A i \in DOMAIN written' : written'[i].id \notin dropped'
    BY <1>3 DEF MessagesKeepTheirPlace, InPlace, AsReported
  <1>7. ShownUnlessDropped'
    BY <1>6 DEF ShownUnlessDropped
  <1>8. NothingIsLost'
    BY <1>1, <1>2, <1>7 DEF WayInv, NothingIsLost
  <1> QED
    BY <1>3, <1>4, <1>5, <1>8 DEF WayInv

LEMMA HistoryPush ==
    ASSUME HistoryInv, nasm_error_hold_push
    PROVE  WayInv'
  <1> DEFINE n == Len(errhold_stack)
  <1>1. /\ stage = "reading" /\ dropped' = dropped
        /\ UNCHANGED <<stage, outcome, pass, final, bufferVars, reported>>
        /\ errhold_stack' = Append(errhold_stack, <<>>)
        /\ pushedAt' = Append(pushedAt, Len(reported))
    BY DEF nasm_error_hold_push, passVars
  <1>2. /\ WayInv /\ errhold_stack \in Seq(Seq(Message)) /\ pushedAt \in Seq(Nat)
        /\ reported \in Seq(Message) /\ Len(reported) \in Nat /\ n \in Nat
        /\ written \in Seq(Message) /\ warn_list \in Seq(Message)
    BY HistoryFacts
  <1>3. /\ Len(errhold_stack') = n + 1 /\ errhold_stack'[n + 1] = <<>>
        /\ \A h \in 1 .. n : errhold_stack'[h] = errhold_stack[h]
    BY <1>1, <1>2, EmptyList, AppendProperties
  <1>4. /\ Len(pushedAt) = n /\ pushedAt'[n + 1] = Len(reported)
        /\ \A h \in 1 .. n : pushedAt'[h] = pushedAt[h]
    BY <1>1, <1>2, HoldsNow, AppendProperties
  <1>5. Partition(errhold_stack', pushedAt', reported, dropped')
    BY <1>1, <1>2, HoldsNow, PartitionPush
  <1>6. InPlace(written, warn_list, reported, dropped')
        /\ dropped' \subseteq DOMAIN reported
    BY <1>1, <1>2 DEF WayInv, MessagesKeepTheirPlace
  <1>7. \A h \in 1 .. n + 1 : h \in 1 .. n \/ h = n + 1
    BY <1>2
  <1>8. \A h \in 1 .. Len(errhold_stack') :
           UpTo(written, pushedAt'[h]) /\ UpTo(warn_list, pushedAt'[h])
    <2>1. UpTo(written, Len(reported)) /\ UpTo(warn_list, Len(reported))
      BY <1>2, <1>6, UpToEnd DEF InPlace
    <2> QED
      BY <1>1, <1>3, <1>4, <1>7, <2>1, HoldsNow
  <1>9. \A id \in DOMAIN reported : IsSomewhere(id) => IsSomewhere(id)'
    <2>1. \A h \in 1 .. n : h \in 1 .. n + 1
      BY <1>2
    <2> QED
      BY <1>1, <1>3, <2>1 DEF IsSomewhere, bufferVars
  <1>10. UndeadAreNotHeld'
    BY <1>2, <1>3, <1>7, EmptyList DEF WayInv, UndeadAreNotHeld
  <1> QED
    BY <1>1, <1>5, <1>6, <1>8, <1>9, <1>10, HoldsMoved

LEMMA HistoryDrop ==
    ASSUME HistoryInv, Drop
    PROVE  WayInv'
  <1> DEFINE n == Len(errhold_stack)
             top == Top(errhold_stack)
  <1>1. /\ stage = "reading" /\ errhold_stack # <<>>
        /\ dropped' = dropped \cup {top[i].id : i \in DOMAIN top}
        /\ UNCHANGED <<stage, outcome, pass, final, bufferVars, reported>>
        /\ errhold_stack' = Below(errhold_stack)
        /\ pushedAt' = Below(pushedAt)
    BY DEF Drop, AfterDrop, passVars
  <1>2. /\ WayInv /\ errhold_stack \in Seq(Seq(Message)) /\ pushedAt \in Seq(Nat)
        /\ reported \in Seq(Message) /\ n \in Nat \ {0}
        /\ written \in Seq(Message) /\ warn_list \in Seq(Message)
    BY <1>1, HistoryFacts
  <1>3. /\ Len(errhold_stack') = n - 1 /\ top = errhold_stack[n]
        /\ \A h \in 1 .. n - 1 : errhold_stack'[h] = errhold_stack[h]
    BY <1>1, <1>2, TopAndBelow
  <1>4. /\ Len(pushedAt) = n /\ pushedAt # <<>>
        /\ \A h \in 1 .. n - 1 : pushedAt'[h] = pushedAt[h]
    BY <1>1, <1>2, HoldsNow, TopAndBelow, EmptySeq
  <1>5. /\ Partition(errhold_stack', pushedAt', reported, dropped')
        /\ \A s \in Seq(Message) :
              AsReported(s, reported, dropped) /\ UpTo(s, pushedAt[n])
                  => AsReported(s, reported, dropped')
    BY <1>1, <1>2, HoldsNow, PartitionDrop
  <1>6. /\ n \in 1 .. n
        /\ \A h \in 1 .. n - 1 : h \in 1 .. n
        /\ \A h \in 1 .. n : h \in 1 .. n - 1 \/ h = n
    BY <1>2
  <1>7. InPlace(written, warn_list, reported, dropped')
        /\ dropped' \subseteq DOMAIN reported
    <2>1. InPlace(written, warn_list, reported, dropped) /\ dropped \subseteq DOMAIN reported
      BY <1>2 DEF WayInv, MessagesKeepTheirPlace
    <2>2. UpTo(written, pushedAt[n]) /\ UpTo(warn_list, pushedAt[n])
          /\ AsReported(top, reported, dropped)
      BY <1>1, <1>3, <1>6, HoldsNow
    <2>3. \A i \in DOMAIN top : top[i].id \in DOMAIN reported
      BY <2>2 DEF AsReported
    <2> QED
      BY <1>1, <1>2, <1>5, <2>1, <2>2, <2>3 DEF InPlace
  <1>8. \A h \in 1 .. Len(errhold_stack') :
           UpTo(written, pushedAt'[h]) /\ UpTo(warn_list, pushedAt'[h])
    BY <1>1, <1>3, <1>4, <1>6, HoldsNow
  <1>9. \A id \in DOMAIN reported : IsSomewhere(id) => IsSomewhere(id)'
    <2>1. \A id : IsIn(id, errhold_stack[n]) => id \in dropped'
      BY <1>1, <1>3 DEF IsIn
    <2> QED
      BY <1>1, <1>3, <1>6, <2>1 DEF IsSomewhere, bufferVars
  <1>10. UndeadAreNotHeld'
    BY <1>2, <1>3, <1>6 DEF WayInv, UndeadAreNotHeld
  <1> QED
    BY <1>1, <1>5, <1>7, <1>8, <1>9, <1>10, HoldsMoved

LEMMA HistoryPassOn ==
    ASSUME HistoryInv, PassOn
    PROVE  WayInv'
  <1> DEFINE n == Len(errhold_stack)
             joined == Top(Below(errhold_stack)) \o Top(errhold_stack)
  <1>1. /\ stage = "reading" /\ n > 1 /\ dropped' = dropped
        /\ UNCHANGED <<stage, outcome, pass, final, bufferVars, reported>>
        /\ errhold_stack' = Append(Below(Below(errhold_stack)), joined)
        /\ pushedAt' = Below(pushedAt)
    BY DEF PassOn, PassedOn, passVars
  <1>2. /\ WayInv /\ errhold_stack \in Seq(Seq(Message)) /\ pushedAt \in Seq(Nat)
        /\ reported \in Seq(Message) /\ n \in Nat
        /\ written \in Seq(Message) /\ warn_list \in Seq(Message)
    BY <1>1, HistoryFacts
  <1>3. /\ Partition(errhold_stack', pushedAt', reported, dropped')
        /\ Len(errhold_stack') = n - 1
        /\ \A h \in 1 .. n - 1 : pushedAt'[h] = pushedAt[h]
        /\ errhold_stack'[n - 1] = joined
        /\ \A h \in 1 .. n - 2 : errhold_stack'[h] = errhold_stack[h]
    BY <1>1, <1>2, HoldsNow, PartitionPassOn
  <1>4. \A id : IsIn(id, joined) <=> \/ IsIn(id, errhold_stack[n - 1])
                                     \/ IsIn(id, errhold_stack[n])
    BY <1>1, <1>2, HoldsNow, PartitionPassOn
  <1>5. /\ \A h \in 1 .. n : h \in 1 .. n - 2 \/ h = n - 1 \/ h = n
        /\ \A h \in 1 .. n - 1 : h \in 1 .. n /\ (h \in 1 .. n - 2 \/ h = n - 1)
        /\ \A h \in 1 .. n - 2 : h \in 1 .. n - 1
        /\ n - 1 \in 1 .. n - 1 /\ n - 1 \in 1 .. n /\ n \in 1 .. n
    BY <1>1, <1>2
  <1>6. InPlace(written, warn_list, reported, dropped')
        /\ dropped' \subseteq DOMAIN reported
    BY <1>1, <1>2 DEF WayInv, MessagesKeepTheirPlace
  <1>7. \A h \in 1 .. Len(errhold_stack') :
           UpTo(written, pushedAt'[h]) /\ UpTo(warn_list, pushedAt'[h])
    BY <1>1, <1>3, <1>5, HoldsNow
  <1>8. ASSUME NEW id \in DOMAIN reported, IsSomewhere(id)
        PROVE  IsSomewhere(id)'
    <2>1. ASSUME NEW h \in 1 .. n, IsIn(id, errhold_stack[h])
          PROVE  \E g \in 1 .. n - 1 : IsIn(id, errhold_stack'[g])
      BY <1>3, <1>4, <1>5, <2>1
    <2> HIDE DEF joined
    <2>2. UNCHANGED <<written, warn_list, dropped>> /\ Len(errhold_stack') = n - 1
      BY <1>1, <1>3 DEF bufferVars
    <2>3. \/ id \in dropped \/ IsIn(id, written) \/ IsIn(id, warn_list)
          \/ \E g \in 1 .. n - 1 : IsIn(id, errhold_stack'[g])
      BY <1>8, <2>1 DEF IsSomewhere
    <2> QED
      BY <2>2, <2>3 DEF IsSomewhere
  <1>9. UndeadAreNotHeld'
    <2>1. /\ errhold_stack[n - 1] \in Seq(Message) /\ errhold_stack[n] \in Seq(Message)
          /\ joined = errhold_stack[n - 1] \o errhold_stack[n]
      <3>1. /\ Top(errhold_stack) = errhold_stack[n]
            /\ Below(errhold_stack) \in Seq(Seq(Message))
            /\ Len(Below(errhold_stack)) = n - 1
            /\ Below(errhold_stack)[n - 1] = errhold_stack[n - 1]
        <4>1. errhold_stack \in Seq(Seq(Message)) /\ errhold_stack # <<>>
          BY <1>1, <1>2, HistoryFacts
        <4> QED
          BY <1>2, <1>5, <4>1, TopAndBelow
      <3>2. Top(Below(errhold_stack)) = errhold_stack[n - 1]
        BY <3>1 DEF Top
      <3> QED
        BY <1>5, <3>1, <3>2, HistoryFacts
    <2>2. \A i \in DOMAIN joined :
             \/ \E j \in DOMAIN errhold_stack[n - 1] : joined[i] = errhold_stack[n - 1][j]
             \/ \E j \in DOMAIN errhold_stack[n] : joined[i] = errhold_stack[n][j]
      <3> HIDE DEF joined
      <3> QED
        BY <2>1, ElementsJoined
    <2> HIDE DEF joined
    <2>3. \A i \in DOMAIN joined : ~IsUndead(joined[i])
      BY <1>2, <1>5, <2>2 DEF WayInv, UndeadAreNotHeld
    <2> QED
      BY <1>2, <1>3, <1>5, <2>3 DEF WayInv, UndeadAreNotHeld
  <1> QED
    BY <1>1, <1>3, <1>6, <1>7, <1>8, <1>9, HoldsMoved

LEMMA HistoryIssue ==
    ASSUME HistoryInv, IssueHeld
    PROVE  WayInv'
  <1> DEFINE top == Top(errhold_stack)
  <1>1. /\ stage = "reading" /\ Len(errhold_stack) = 1 /\ Issue(top)
        /\ errhold_stack' = <<>> /\ pushedAt' = <<>> /\ dropped' = dropped
        /\ UNCHANGED <<stage, outcome, pass, final, reported>>
    BY DEF IssueHeld, passVars
  <1>2. /\ WayInv /\ MessageInv /\ MessageTypes /\ TypeOK
        /\ reported \in Seq(Message) /\ Len(reported) \in Nat
        /\ written \in Seq(Message) /\ warn_list \in Seq(Message)
        /\ ~buffering => warn_list = <<>>
        /\ DOMAIN errhold_stack = 1 .. Len(errhold_stack)
    BY <1>1, HistoryFacts
  <1>3. 1 \in 1 .. Len(errhold_stack) /\ 1 .. Len(errhold_stack) = {1}
    BY <1>1
  <1>4. top = errhold_stack[1] /\ top \in Seq(Message)
    BY <1>1, <1>3, HistoryFacts DEF Top
  <1>5. /\ AsReported(top, reported, dropped) /\ Ordered(top)
        /\ Since(top, pushedAt[1]) /\ pushedAt[1] \in Nat
        /\ UpTo(written, pushedAt[1]) /\ UpTo(warn_list, pushedAt[1])
    BY <1>1, <1>3, <1>4, HoldsNow
  <1>6. /\ \A i \in DOMAIN top : ~IsUndead(top[i])
        /\ Tidy(top)
    BY <1>2, <1>3, <1>4 DEF WayInv, UndeadAreNotHeld, MessageInv, ListsInOrder
  <1> HIDE DEF top
  <1>7. Precedes(written, top) /\ Precedes(warn_list, top)
    BY <1>2, <1>4, <1>5, PrecedesAt
  <1>8. /\ \/ /\ buffering
              /\ buffering' = TRUE /\ written' = written
              /\ warn_list' = warn_list \o top
           \/ /\ buffering' = FALSE /\ warn_list' = <<>>
              /\ written' = written \o (warn_list \o top)
        /\ \A id : IsIn(id, written) \/ IsIn(id, warn_list) \/ IsIn(id, top)
                      => IsIn(id, written') \/ IsIn(id, warn_list')
    BY <1>1, <1>2, <1>4, IssueMoves
  <1>9. MessagesKeepTheirPlace'
    <2>1. /\ InPlace(written, warn_list, reported, dropped)
          /\ dropped \subseteq DOMAIN reported
          /\ \A id \in DOMAIN reported : reported[id].id = id /\ reported[id].pass <= pass
      BY <1>2 DEF WayInv, MessagesKeepTheirPlace
    <2>2. /\ InPlace(written, warn_list \o top, reported, dropped)
          /\ InPlace(written \o (warn_list \o top), <<>>, reported, dropped)
      BY <1>2, <1>4, <1>5, <1>7, <2>1, IssueKeepsPlaces
    <2>3. InPlace(written', warn_list', reported, dropped)
      BY <1>8, <2>2
    <2> QED
      BY <1>1, <2>1, <2>3 DEF MessagesKeepTheirPlace
  <1>10. 1 .. Len(errhold_stack') = {}
    BY <1>1, EmptyList
  <1>11. HoldsPartition' /\ UndeadAreNotHeld'
    BY <1>1, <1>10, NoHolds DEF HoldsPartition, UndeadAreNotHeld
  <1>12. UndeadAreSilenced'
    BY <1>1, <1>2, <1>4, <1>6, IssueSilences DEF WayInv
  <1>13. NothingIsLost'
    <2>1. ASSUME NEW id \in DOMAIN reported, reported[id].pass = pass
          PROVE  id \in dropped \/ IsIn(id, written') \/ IsIn(id, warn_list')
      <3>1. IsSomewhere(id)
        BY <1>1, <1>2, <2>1 DEF WayInv, NothingIsLost
      <3> QED
        BY <1>3, <1>4, <1>8, <3>1 DEF IsSomewhere
    <2>2. \A id \in DOMAIN reported' : reported'[id].pass = pass' => IsSomewhere(id)'
      BY <1>1, <2>1 DEF IsSomewhere
    <2>3. final' => ~buffering'
      BY <1>1, <1>2, <1>8 DEF WayInv, NothingIsLost
    <2>4. \A i \in DOMAIN written' : written'[i].id \notin dropped'
      BY <1>9 DEF MessagesKeepTheirPlace, InPlace, AsReported
    <2> QED
      BY <1>1, <2>2, <2>3, <2>4 DEF NothingIsLost, ShownUnlessDropped
  <1> QED
    BY <1>9, <1>11, <1>12, <1>13 DEF WayInv

LEMMA HistoryDirectives ==
    ASSUME HistoryInv, push_warnings \/ pop_warnings \/ SetWarningStatus
    PROVE  WayInv'
  <1>1. /\ stage = "reading" /\ UNCHANGED <<pass, final, dropped, pushedAt>>
    BY DEF push_warnings, pop_warnings, SetWarningStatus, set_warning_status,
           InDirective, passVars
  <1>2. /\ warning_state \in WarningStates /\ warning_stack \in Seq(WarningStates)
        /\ warning_stack # <<>>
    BY HistoryFacts DEF TypeOK
  <1>3. ASSUME NEW state \in WarningStates, NEW class \in Classes,
               nasm_verror(state, [severity |-> WARNING, class |-> class,
                                   flags |-> {}], FALSE, FALSE)
        PROVE  WayInv'
    <2> DEFINE k == [severity |-> WARNING, class |-> class, flags |-> {}]
    <2>1. /\ k \in [severity : Severities, class : Classes, flags : SUBSET Flags]
          /\ "undead" \in k.flags => k.severity < FATAL /\ errhold_stack = <<>>
          /\ FALSE \in BOOLEAN
      BY DEF Severities
    <2> HIDE DEF k
    <2>2. \A dead \in BOOLEAN, inMacro \in BOOLEAN :
             nasm_verror(state, k, dead, inMacro) => WayInv'
      BY <1>1, <2>1, VerrorHistory
    <2>3. nasm_verror(state, k, FALSE, FALSE)
      BY <1>3 DEF k
    <2> QED
      BY <2>1, <2>2, <2>3
  <1>4. ASSUME UNCHANGED <<stage, outcome, bufferVars, errhold_stack, reported>>
        PROVE  WayInv'
    BY <1>1, <1>4, HistoryUntouched
  <1>5. CASE push_warnings
    BY <1>4, <1>5 DEF push_warnings
  <1>6. CASE pop_warnings
    <2>1. Top(warning_stack) \in WarningStates
      BY <1>2, TopAndBelow
    <2>2. StackEmpty \in Classes
      BY ClassesAssumption
    <2> QED
      BY <1>3, <1>4, <1>6, <2>1, <2>2 DEF pop_warnings
  <1>7. CASE SetWarningStatus
    <2>1. Unknown \in Classes
      BY ClassesAssumption
    <2> QED
      BY <1>2, <1>3, <1>4, <1>7, <2>1 DEF SetWarningStatus, set_warning_status
  <1> QED
    BY <1>5, <1>6, <1>7

LEMMA HistoryReport ==
    ASSUME HistoryInv, Report
    PROVE  WayInv'
  <1>1. PICK k \in Kinds, deadBranch \in BOOLEAN, inMacro \in BOOLEAN :
            /\ "undead" \in k.flags => errhold_stack = <<>>
            /\ nasm_verror(warning_state, k, deadBranch, inMacro)
    BY DEF Report
  <1>2. /\ k \in [severity : Severities, class : Classes, flags : SUBSET Flags]
        /\ "undead" \in k.flags => k.severity < FATAL /\ errhold_stack = <<>>
    BY <1>1, KindsAssumption
  <1>3. warning_state \in WarningStates
    BY HistoryFacts DEF TypeOK
  <1>4. /\ stage \in {"reading", "cleanup"}
        /\ UNCHANGED <<pass, final, dropped, pushedAt>>
    BY DEF Report, passVars
  <1> QED
    BY <1>1, <1>2, <1>3, <1>4, VerrorHistory

(* Every step keeps the invariant, and so does none.                       *)
LEMMA HistoryNext == HistoryInv /\ [Next]_vars => HistoryInv'
  <1> SUFFICES ASSUME HistoryInv, [Next]_vars PROVE HistoryInv'
    OBVIOUS
  <1>1. ReportingInv'
    BY ReportingNext, HistoryFacts
  <1>2. ASSUME Next PROVE WayInv'
    BY <1>2, HistoryPasses, HistoryReport, HistoryPush, HistoryDrop, HistoryPassOn,
       HistoryIssue, HistoryDirectives DEF Next
  <1>3. ASSUME UNCHANGED vars PROVE WayInv'
    <2>1. UNCHANGED <<stage, outcome, pass, final, bufferVars, errhold_stack,
                      reported, dropped, pushedAt>>
      BY <1>3 DEF vars, passVars
    <2> QED
      BY <2>1, HistoryUntouched
  <1>4. WayInv'
    BY <1>2, <1>3
  <1> QED
    BY <1>1, <1>4 DEF HistoryInv, WayInv

(* What nasm_error_hold_pop returns.                                       *)
LEMMA DropAnswers ==
    ASSUME HistoryInv, Drop
    PROVE  popped' >= NONFATAL <=>
               \E id \in DOMAIN reported :
                   /\ id > Top(pushedAt) /\ id \notin dropped
                   /\ reported[id].type = NONFATAL
  <1> DEFINE n == Len(errhold_stack)
             top == Top(errhold_stack)
             S == {0} \cup Types(top)
  <1>1. /\ stage = "reading" /\ errhold_stack # <<>> /\ popped' = Highest(S)
    BY DEF Drop
  <1>2. /\ n \in Nat \ {0} /\ errhold_stack \in Seq(Seq(Message)) /\ MessageInv
        /\ DOMAIN errhold_stack = 1 .. n /\ reported \in Seq(Message)
        /\ DOMAIN reported = 1 .. Len(reported)
    BY <1>1, HistoryFacts
  <1>3. n \in 1 .. n /\ n \in n .. n /\ \A g \in n .. n : g = n
    BY <1>2
  <1>4. top = errhold_stack[n] /\ top \in Seq(Message)
    BY <1>1, <1>2, TopAndBelow
  <1>5. /\ AsReported(top, reported, dropped) /\ Since(top, pushedAt[n])
        /\ Top(pushedAt) = pushedAt[n]
        /\ \A id \in DOMAIN reported :
              id > pushedAt[n] /\ id \notin dropped => IsIn(id, top)
    <2>1. Partition(errhold_stack, pushedAt, reported, dropped)
          /\ Len(pushedAt) = n
      BY <1>1, HoldsNow
    <2>2. \A id \in DOMAIN reported :
             id > pushedAt[n] /\ id \notin dropped =>
                 \E g \in n .. n : IsIn(id, errhold_stack[g])
      BY <1>3, <2>1 DEF Partition
    <2> QED
      BY <1>1, <1>3, <1>4, <2>1, <2>2, HoldsNow DEF Top
  <1>6. \A i \in DOMAIN top : top[i] \in Message /\ top[i].type \in {WARNING, NONFATAL}
    <2>1. \A i \in DOMAIN top : top[i] \in Message
      BY <1>4, Ids
    <2>2. \A i \in DOMAIN top : top[i].type < FATAL
      BY <1>2, <1>3, <1>4 DEF MessageInv, NothingFatalWaits
    <2> QED
      BY <2>1, <2>2 DEF Message, Severities, WARNING, NONFATAL, FATAL
  <1>7. S \in SUBSET {0, WARNING, NONFATAL} /\ S # {}
    BY <1>6 DEF Types
  <1>8. popped' \in S /\ \A y \in S : y <= popped'
    BY <1>1, <1>7, HighestOf
  <1>9. popped' >= NONFATAL <=> NONFATAL \in S
    <2> HIDE DEF S
    <2> QED
      BY <1>7, <1>8 DEF WARNING, NONFATAL
  <1>10. NONFATAL \in S <=> \E i \in DOMAIN top : top[i].type = NONFATAL
    BY DEF Types, NONFATAL
  <1>11. \A i \in DOMAIN top : /\ top[i].id \in DOMAIN reported
                               /\ top[i].id \notin dropped
                               /\ top[i].id > pushedAt[n]
                               /\ reported[top[i].id].type = top[i].type
    <2> TAKE i \in DOMAIN top
    <2>1. /\ top[i].id \in DOMAIN reported /\ top[i].id \notin dropped
          /\ reported[top[i].id] = [top[i] EXCEPT !.listmacro = FALSE]
      BY <1>5 DEF AsReported
    <2>2. reported[top[i].id].type = top[i].type
      BY <1>6, <2>1 DEF Message
    <2>3. top[i].id > pushedAt[n]
      <3>1. pushedAt[n] < top[i].id
        BY <1>5 DEF Since
      <3>2. top[i].id \in Nat /\ pushedAt[n] \in Nat
        BY <1>1, <1>3, <1>4, HoldsNow, Ids
      <3> QED
        BY <3>1, <3>2
    <2> QED
      BY <2>1, <2>2, <2>3
  <1> HIDE DEF top, S, n
  <1>12. (\E i \in DOMAIN top : top[i].type = NONFATAL) <=>
            \E id \in DOMAIN reported : /\ id > Top(pushedAt) /\ id \notin dropped
                                        /\ reported[id].type = NONFATAL
    BY <1>5, <1>11 DEF IsIn
  <1> QED
    BY <1>9, <1>10, <1>12

-----------------------------------------------------------------------------
(* Holds, their commitment to the level above and the buffer never change  *)
(* the order in which messages are shown (nasm_error_hold_pop,             *)
(* nasm_issue_error).                                                      *)
THEOREM MessagesStayInOrder == Spec => []ShownInOrder
  <1>1. HistoryInv => ShownInOrder
    BY DEF HistoryInv, MessagesKeepTheirPlace, InPlace, Ordered, ShownInOrder
  <1> QED
    BY <1>1, HistoryInit, HistoryNext, PTL DEF Spec

(* What a hold dropped is never shown, and once the last pass is over all  *)
(* else that it reported was (nasm_error_hold_pop, error_pass_end).        *)
THEOREM NoMessageIsLost == Spec => []ShownUnlessDropped
  <1>1. HistoryInv => ShownUnlessDropped
    BY DEF HistoryInv, NothingIsLost
  <1> QED
    BY <1>1, HistoryInit, HistoryNext, PTL DEF Spec

(* After an error that counts none that is marked ERR_UNDEAD is shown,     *)
(* though it may have been reported before (nasm_issue_error).             *)
THEOREM TheUndeadStaySilent == Spec => []NoUndeadAfterErrors
  <1>1. HistoryInv => NoUndeadAfterErrors
    BY DEF HistoryInv, UndeadAreSilenced
  <1> QED
    BY <1>1, HistoryInit, HistoryNext, PTL DEF Spec

(* Whoever drops a hold learns whether an error was reported since it was  *)
(* pushed, at any level, that no inner attempt dropped: the answer         *)
(* calcsize_speculative relies on (nasm_error_hold_pop).                   *)
THEOREM SpeculationIsInformed == Spec => SpeculationSeesErrors
  <1>1. HistoryInv /\ [Next]_vars =>
            [Drop => (popped' >= NONFATAL <=>
                         \E id \in DOMAIN reported :
                             /\ id > Top(pushedAt) /\ id \notin dropped
                             /\ reported[id].type = NONFATAL)]_vars
    BY DropAnswers
  <1> QED
    BY <1>1, HistoryInit, HistoryNext, PTL DEF Spec, SpeculationSeesErrors

=============================================================================
