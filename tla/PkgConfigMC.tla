------------------------------ MODULE PkgConfigMC ------------------------------
(* Instances of PkgConfig for TLC. *)
EXTENDS PkgConfig, SequencesExt

CONSTANTS foo, pthread, opt, usr, incl, def

TwoLibs == {foo, pthread}
TwoDirs == {opt, usr}

(* foo is in both directories, pthread in the one that is no system one,   *)
(* and forced.                                                             *)
SomeArchives == {<<opt, foo>>, <<usr, foo>>, <<opt, pthread>>}
System == {usr}
ForcedLibs == {pthread}

(* Lists of up to five of these tokens, and of four for parse_cflags.      *)
SomeTokens ==
    {[type |-> "dir", dir |-> opt], [type |-> "dir", dir |-> usr], [type |-> "other"],
     [type |-> "lib", name |-> foo], [type |-> "lib", name |-> pthread], [type |-> "pthread"],
     [type |-> "wl", args |-> {"whole"}], [type |-> "wl", args |-> {"no_whole", "keep"}]}
UpToFive == SeqOf(SomeTokens, 5)

TwoCTokens == {incl, def}
UpToFour ==
    SeqOf({[type |-> "cflag", text |-> incl], [type |-> "cflag", text |-> def], [type |-> "other"]}, 4)

(* What parse does says nothing about parse_cflags: one list at a time.    *)
OneLong == (UpToFive \X {<<>>}) \cup ({<<>>} \X UpToFour)
===============================================================================
