------------------------------- MODULE PkgConfig -------------------------------
(***************************************************************************)
(* The parser of the build-time crate pkgconf: PkgConfigParser::parse      *)
(* turns the output of `pkg-config --static --libs' into link flags for    *)
(* Cargo, parse_cflags that of `--cflags' into flags for clang             *)
(* (pkgconf/src/lib.rs).  probe calls the one and then the other.          *)
(*                                                                         *)
(* The first output is one list in which `-Wl,--whole-archive' brackets    *)
(* change the meaning of the libraries between them and a library may come *)
(* several times.  The parser reads it twice, first for the directories of *)
(* -L, then token by token; a step of this module is one round of the      *)
(* second loop, or of the loop of parse_cflags.  Tokens are given by what  *)
(* the parser tells apart: -lname and -l:libname.a are one token, as they  *)
(* name one library.                                                       *)
(***************************************************************************)
EXTENDS Naturals, Sequences, FiniteSets

CONSTANTS
    Libs,        \* library names
    Pthread,     \* the library that -pthread stands for
    Dirs,        \* directories
    Archives,    \* the pairs <<d, n>> such that d holds lib<n>.a
    SystemDirs,  \* the directories under a system root
    Forced,      \* force_whole_archive
    Inputs,      \* the outputs of pkg-config that are parsed, --libs first
    CTokens,     \* the tokens of the form -I... and -D...
    None         \* no index

ASSUME NamesAssumption ==
    /\ Pthread \in Libs /\ None \notin Nat
    /\ Archives \subseteq Dirs \X Libs /\ SystemDirs \subseteq Dirs /\ Forced \subseteq Libs

(* -Ldir, -lname, -pthread, and -Wl with any of --whole-archive,           *)
(* --no-whole-archive and an argument to pass through.  The rest of what   *)
(* pkg-config may print is skipped.                                        *)
DirToken == [type : {"dir"}, dir : Dirs]
LibToken == [type : {"lib"}, name : Libs]
WlToken == [type : {"wl"}, args : SUBSET {"whole", "no_whole", "keep"}]
PlainToken == [type : {"pthread", "other"}]
Tokens == DirToken \cup LibToken \cup WlToken \cup PlainToken

(* An -I or -D token is known by its text (-DX and -DX=1 are two); what    *)
(* parse_cflags makes of it is a function of the text.                     *)
CflagToken == [type : {"cflag"}, text : CTokens] \cup [type : {"other"}]

ASSUME InputsAssumption == Inputs \subseteq Seq(Tokens) \X Seq(CflagToken)

LinkKind == {"Default", "Static", "WholeArchive"}
LinkerFlag ==
    [type : {"SearchPath"}, dir : Dirs]
        \cup [type : {"Library"}, name : Libs, kind : LinkKind]
        \cup [type : {"LinkerArg"}, args : SUBSET {"whole", "no_whole", "keep"}]

VARIABLES
    input,    \* the tokens of --libs
    cinput,   \* the tokens of --cflags
    pos,      \* how many of them the second loop has read
    cpos,     \* how many of those parse_cflags has read
    flags,    \* the flags, in order
    seen,     \* seen_libs
    indices,  \* lib_indices: [Libs -> Nat \cup {None}]
    region,   \* in_whole_archive_region
    cflags,   \* the flags of parse_cflags, in order
    cseen     \* its seen

inputVars == <<input, cinput>>
libVars == <<pos, flags, seen, indices, region>>
cflagVars == <<cpos, cflags, cseen>>
vars == <<inputVars, libVars, cflagVars>>

TypeOK ==
    /\ <<input, cinput>> \in Inputs
    /\ pos \in 0 .. Len(input)
    /\ cpos \in 0 .. Len(cinput)
    /\ flags \in Seq(LinkerFlag)
    /\ seen \subseteq Libs
    /\ indices \in [Libs -> 1 .. Len(flags) \cup {None}]
    /\ region \in BOOLEAN
    /\ cflags \in Seq(CTokens)
    /\ cseen \subseteq CTokens

Init ==
    /\ \E outputs \in Inputs : input = outputs[1] /\ cinput = outputs[2]
    /\ pos = 0 /\ cpos = 0
    /\ flags = <<>>
    /\ seen = {}
    /\ indices = [n \in Libs |-> None]
    /\ region = FALSE
    /\ cflags = <<>>
    /\ cseen = {}

-------------------------------------------------------------------------------
(* The first pass. *)
LibDirs == {input[i].dir : i \in {j \in DOMAIN input : input[j].type = "dir"}}

(* is_static_available: lib<n>.a is in a directory that is no system one.  *)
IsStaticAvailable(n) == \E d \in LibDirs \ SystemDirs : <<d, n>> \in Archives

KindOf(n) ==
    IF ~IsStaticAvailable(n) THEN "Default"
    ELSE IF region \/ n \in Forced THEN "WholeArchive" ELSE "Static"

(* handle_library on a new name ... *)
AddLibrary(n) ==
    /\ flags' = Append(flags, [type |-> "Library", name |-> n, kind |-> KindOf(n)])
    /\ seen' = seen \cup {n}
    /\ indices' = [indices EXCEPT ![n] = Len(flags) + 1]

SlipUpgrades(n) ==  \* whatever the kind was
    region /\ indices[n] # None
Upgrades(n) == region /\ indices[n] # None /\ flags[indices[n]].kind = "Static"

(* ... and on one that came before.                                        *)
SeenLibrary(n) ==
    /\ flags' = IF Upgrades(n) THEN [flags EXCEPT ![indices[n]].kind = "WholeArchive"] ELSE flags
    /\ UNCHANGED <<seen, indices>>

Current == input[pos + 1]
Reads(type) == pos < Len(input) /\ Current.type = type

Advance == pos' = pos + 1 /\ UNCHANGED <<inputVars, cflagVars>>

ReadDir ==
    /\ Reads("dir")
    /\ flags' = Append(flags, [type |-> "SearchPath", dir |-> Current.dir])
    /\ Advance
    /\ UNCHANGED <<seen, indices, region>>

(* The branches on the arguments of one -Wl: --no-whole-archive wins.      *)
RegionAfter(a) == "no_whole" \notin a /\ (region \/ "whole" \in a)

ReadWl ==
    /\ Reads("wl")
    /\ region' = RegionAfter(Current.args)
    /\ flags' = IF "keep" \in Current.args
                   THEN Append(flags, [type |-> "LinkerArg", args |-> Current.args]) ELSE flags
    /\ Advance
    /\ UNCHANGED <<seen, indices>>

ReadLib ==
    /\ Reads("lib")
    /\ IF Current.name \in seen THEN SeenLibrary(Current.name) ELSE AddLibrary(Current.name)
    /\ Advance
    /\ UNCHANGED region

SlipPthreadAgain == TRUE  \* -pthread adds its library each time
PthreadIsNew == Pthread \notin seen

(* -pthread adds a library that has no index. *)
ReadPthread ==
    /\ Reads("pthread") /\ PthreadIsNew
    /\ flags' = Append(flags, [type |-> "Library", name |-> Pthread, kind |-> "Default"])
    /\ seen' = seen \cup {Pthread}
    /\ Advance
    /\ UNCHANGED <<indices, region>>

Skip ==
    /\ Reads("other") \/ (Reads("pthread") /\ ~PthreadIsNew)
    /\ Advance
    /\ UNCHANGED <<flags, seen, indices, region>>

-------------------------------------------------------------------------------
(* parse_cflags, after parse: a token that is new makes a flag, one that   *)
(* came before none, and what is neither -I nor -D none.                   *)
ReadsCflag(type) == pos = Len(input) /\ cpos < Len(cinput) /\ cinput[cpos + 1].type = type

CflagIsNew(text) == text \notin cseen

ReadCflag ==
    /\ ReadsCflag("cflag")
    /\ LET text == cinput[cpos + 1].text IN
       /\ cflags' = IF CflagIsNew(text) THEN Append(cflags, text) ELSE cflags
       /\ cseen' = cseen \cup {text}
    /\ cpos' = cpos + 1
    /\ UNCHANGED <<inputVars, libVars>>

SkipCflag ==
    /\ ReadsCflag("other")
    /\ cpos' = cpos + 1
    /\ UNCHANGED <<inputVars, libVars, cflags, cseen>>

Next == ReadDir \/ ReadWl \/ ReadLib \/ ReadPthread \/ Skip \/ ReadCflag \/ SkipCflag

Spec == Init /\ [][Next]_vars
-------------------------------------------------------------------------------
(***************************************************************************)
(* Properties, of every prefix of the input the loop has read.             *)
(***************************************************************************)
Read == 1 .. pos

Mentions(i, n) ==
    \/ input[i].type = "lib" /\ input[i].name = n
    \/ input[i].type = "pthread" /\ n = Pthread

FirstMention(i, n) == Mentions(i, n) /\ \A j \in 1 .. i - 1 : ~Mentions(j, n)

(* Position i lies between an opening bracket and the next closing one.    *)
Opens(i) == input[i].type = "wl" /\ "whole" \in input[i].args /\ "no_whole" \notin input[i].args
Closes(i) == input[i].type = "wl" /\ "no_whole" \in input[i].args
Bracketed(i) == \E j \in 1 .. i - 1 : Opens(j) /\ \A k \in j + 1 .. i - 1 : ~Closes(k)

(* What the docs promise of a library: Default without a static archive    *)
(* outside of the system's directories (lib.rs:522), WholeArchive if it is *)
(* forced (327-331) or some -l names it inside brackets, before or after   *)
(* others outside of them (523-524), and Static otherwise (521).  Of a     *)
(* forced library without an archive they say two things (327, 522); the   *)
(* code decides for Default.                                               *)
Promised(n) ==
    IF ~\E i \in DOMAIN input : /\ input[i].type = "dir" /\ input[i].dir \notin SystemDirs
                                /\ <<input[i].dir, n>> \in Archives
    THEN "Default"
    ELSE IF n \in Forced \/ \E i \in Read : Mentions(i, n) /\ input[i].type = "lib" /\ Bracketed(i)
         THEN "WholeArchive" ELSE "Static"

ByPthread(n) == \E i \in Read : FirstMention(i, n) /\ input[i].type = "pthread"

(* After every token, each library has the kind promised for all that was  *)
(* read.  The code does not keep this for a library that -pthread brought  *)
(* in before any -l (lib.rs:584-590): that stays Default, whatever its     *)
(* archives, brackets and force_whole_archive, and without the exception   *)
(* TLC refutes the property.                                               *)
KindIsPromised ==
    \A i \in DOMAIN flags :
        (flags[i].type = "Library" /\ ~ByPthread(flags[i].name)) =>
            flags[i].kind = Promised(flags[i].name)

(* The flags are those of the input, in its order: link order matters.     *)
(* Each directory and argument passed through has one, and each library    *)
(* has one, where it is first mentioned.  The docs have the markers of     *)
(* whole-archive regions consumed (lib.rs:124-126, 558), the code passes   *)
(* those on that share a token with another argument (555-557): Describes  *)
(* asks for the other arguments only.  The compiler flags are in order,    *)
(* too, each where it first comes.                                         *)
Emits(i) ==
    \/ input[i].type = "dir"
    \/ input[i].type = "wl" /\ "keep" \in input[i].args
    \/ \E n \in Libs : FirstMention(i, n)

Markers == {"whole", "no_whole"}

Describes(f, i) ==
    CASE f.type = "SearchPath" -> input[i].type = "dir" /\ input[i].dir = f.dir
      [] f.type = "LinkerArg" -> input[i].type = "wl" /\ input[i].args \ Markers = f.args \ Markers
      [] f.type = "Library" -> FirstMention(i, f.name)

CEmits(i) == cinput[i].type = "cflag" /\ \A j \in 1 .. i - 1 : cinput[j] # cinput[i]

Rank(i, S) == Cardinality({j \in S : j <= i})

OrderKept ==
    LET emitting == {i \in Read : Emits(i)}
        cemitting == {i \in 1 .. cpos : CEmits(i)}
    IN
    /\ Len(flags) = Cardinality(emitting) /\ Len(cflags) = Cardinality(cemitting)
    /\ \A i \in emitting : Describes(flags[Rank(i, emitting)], i)
    /\ \A i \in cemitting : cflags[Rank(i, cemitting)] = cinput[i].text
===============================================================================
