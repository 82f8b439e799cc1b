------------------------------ MODULE MCErrors ------------------------------
(* Messages of all kinds, holds and passes; or directives on warnings with  *)
(* few messages.                                                           *)
EXTENDS ErrorReporting

CONSTANTS User, Late   \* the classes user and label-redef-late

Msg(s, c, f) == [severity |-> s, class |-> c, flags |-> f]

(* nasm_warn, %warning, a late label; nasm_nonfatal, nasm_holderr, %error, *)
(* the end of a pass; nasm_fatal.                                          *)
MCKinds ==
    {Msg(WARNING, User, {}), Msg(WARNING, User, {"pass2"}),
     Msg(WARNING, Late, {"undead"}),
     Msg(NONFATAL, User, {}), Msg(NONFATAL, User, {"hold"}),
     Msg(NONFATAL, User, {"pass2"}), Msg(NONFATAL, User, {"undead"}),
     Msg(FATAL, User, {})}

MCClasses == {User, Late, StackEmpty, Unknown}

(* The default, where a late label is an error, and -Werror.               *)
MCCommandLines ==
    {[c \in MCClasses |-> IF c = Late THEN StatusBits ELSE {"enabled"}],
     [c \in MCClasses |-> StatusBits]}

MCNames == {{User}, {}}

(* Bound: behaviours are followed where directives have changed something   *)
(* only as long as there is no hold, one message and two passes at most.   *)
Apart ==
    \/ warning_state = cmdline /\ Len(warning_stack) = 1
    \/ Len(reported) <= 1 /\ pass <= 2 /\ errhold_stack = <<>>
=============================================================================
