--------------------------- MODULE PkgConfig_proofs ---------------------------
(***************************************************************************)
(* What PkgConfig guarantees for every output of pkg-config, of any        *)
(* length, and any libraries, directories and archives.                    *)
(***************************************************************************)
EXTENDS PkgConfig, FiniteSetTheorems, TLAPS

(* A name was seen when some token that was read mentions it, and the      *)
(* region is that of the next token.                                       *)
SeenRead ==
    /\ seen = {n \in Libs : \E i \in Read : Mentions(i, n)}
    /\ region <=> Bracketed(pos + 1)

(* A name that was seen has one flag; its index points to that flag, and   *)
(* is missing when -pthread came first.                                    *)
IsLibrary(i, n) == i \in 1 .. Len(flags) /\ flags[i].type = "Library" /\ flags[i].name = n

Indexed ==
    /\ \A i \in Int, n \in Libs : IsLibrary(i, n) => n \in seen
    /\ \A i, j \in Int, n \in Libs : IsLibrary(i, n) /\ IsLibrary(j, n) => i = j
    /\ \A n \in Libs : indices[n] # None => IsLibrary(indices[n], n)
    /\ \A n \in seen : indices[n] = None <=> ByPthread(n)

(* The texts parse_cflags has seen. *)
CSeenRead == cseen = {cinput[i].text : i \in {j \in 1 .. cpos : cinput[j].type = "cflag"}}

(* The kind that the parser gives: what is promised, but for the libraries *)
(* of -pthread.                                                            *)
Given(n) == IF ByPthread(n) THEN "Default" ELSE Promised(n)

KindIsGiven ==
    \A i \in DOMAIN flags : flags[i].type = "Library" => flags[i].kind = Given(flags[i].name)

IInv == TypeOK /\ SeenRead /\ Indexed /\ CSeenRead /\ KindIsGiven /\ OrderKept

-------------------------------------------------------------------------------
LEMMA Names ==
    /\ Pthread \in Libs /\ None \notin Nat
    /\ Inputs \subseteq Seq(Tokens) \X Seq(CflagToken)
BY NamesAssumption, InputsAssumption

LEMMA TokenShapes ==
    ASSUME NEW k \in Tokens
    PROVE  /\ k.type \in {"dir", "lib", "wl", "pthread", "other"}
           /\ k.type = "dir" => k.dir \in Dirs
           /\ k.type = "lib" => k.name \in Libs
           /\ k.type = "wl" => k.args \in SUBSET {"whole", "no_whole", "keep"}
BY DEF Tokens, DirToken, LibToken, WlToken, PlainToken

LEMMA CflagShapes ==
    /\ \A k \in CflagToken : /\ k.type \in {"cflag", "other"}
                             /\ k.type = "cflag" => k.text \in CTokens
    /\ \A k, l \in CflagToken :
           k.type = "cflag" /\ l.type = "cflag" /\ k.text = l.text => k = l
BY DEF CflagToken

LEMMA FlagShapes ==
    /\ \A f \in LinkerFlag :
           /\ f.type \in {"SearchPath", "Library", "LinkerArg"}
           /\ f.type = "Library" => f.name \in Libs /\ f.kind \in LinkKind
    /\ \A d \in Dirs : [type |-> "SearchPath", dir |-> d] \in LinkerFlag
    /\ \A n \in Libs, k \in LinkKind : [type |-> "Library", name |-> n, kind |-> k] \in LinkerFlag
    /\ \A a \in SUBSET {"whole", "no_whole", "keep"} :
           [type |-> "LinkerArg", args |-> a] \in LinkerFlag
BY DEF LinkerFlag

(* The kind of a library changes, and nothing else. *)
LEMMA OtherKind ==
    ASSUME NEW f \in LinkerFlag, f.type = "Library"
    PROVE  LET g == [f EXCEPT !.kind = "WholeArchive"] IN
           /\ g \in LinkerFlag
           /\ g.type = "Library" /\ g.name = f.name /\ g.kind = "WholeArchive"
<1>1. f \in [type : {"Library"}, name : Libs, kind : LinkKind]
  BY DEF LinkerFlag
<1>2. "WholeArchive" \in LinkKind
  BY DEF LinkKind
<1> QED
  BY <1>1, <1>2 DEF LinkerFlag

LEMMA InputType ==
    ASSUME TypeOK
    PROVE  /\ input \in Seq(Tokens) /\ cinput \in Seq(CflagToken)
           /\ Len(input) \in Nat /\ Len(cinput) \in Nat
<1>1. <<input, cinput>> \in Seq(Tokens) \X Seq(CflagToken)
  BY Names DEF TypeOK
<1> QED
  BY <1>1

LEMMA NextToken ==
    ASSUME TypeOK, pos < Len(input)
    PROVE  pos \in Nat /\ pos + 1 \in 1 .. Len(input) /\ pos + 1 \in 0 .. Len(input) /\ Current \in Tokens
<1>1. pos \in Nat /\ pos + 1 \in 1 .. Len(input) /\ pos + 1 \in 0 .. Len(input)
  BY InputType DEF TypeOK
<1> QED
  BY <1>1, InputType DEF Current

LEMMA KindOfType == \A n \in Libs : KindOf(n) \in LinkKind
BY DEF KindOf, LinkKind

LEMMA FlagAdded ==
    ASSUME TypeOK, NEW f \in LinkerFlag, flags' = Append(flags, f)
    PROVE  /\ flags' \in Seq(LinkerFlag) /\ Len(flags) \in Nat /\ Len(flags') = Len(flags) + 1
           /\ flags'[Len(flags) + 1] = f
           /\ \A i \in 1 .. Len(flags) : flags'[i] = flags[i]
BY DEF TypeOK

LEMMA FlagUpgraded ==
    ASSUME TypeOK, NEW i \in 1 .. Len(flags), flags[i].type = "Library",
           flags' = [flags EXCEPT ![i].kind = "WholeArchive"]
    PROVE  /\ flags' \in Seq(LinkerFlag) /\ Len(flags') = Len(flags)
           /\ flags'[i].type = "Library" /\ flags'[i].name = flags[i].name
           /\ flags'[i].kind = "WholeArchive"
           /\ \A j \in 1 .. Len(flags) : j # i => flags'[j] = flags[j]
<1> DEFINE g == [flags[i] EXCEPT !.kind = "WholeArchive"]
<1>1. flags \in Seq(LinkerFlag) /\ flags[i] \in LinkerFlag
  BY DEF TypeOK
<1>2. /\ g \in LinkerFlag
      /\ g.type = "Library" /\ g.name = flags[i].name /\ g.kind = "WholeArchive"
  BY <1>1, OtherKind
<1>3. flags' = [flags EXCEPT ![i] = g]
  OBVIOUS
<1> HIDE DEF g
<1>4. flags' \in Seq(LinkerFlag) /\ Len(flags') = Len(flags) /\ flags'[i] = g
  BY <1>1, <1>2, <1>3
<1> QED
  BY <1>1, <1>2, <1>3, <1>4

(* A library that is upgraded has a static flag at its index. *)
LEMMA Upgraded ==
    ASSUME IInv, NEW n \in Libs, Upgrades(n)
    PROVE  /\ indices[n] \in 1 .. Len(flags) /\ flags[indices[n]].type = "Library"
           /\ flags[indices[n]].name = n /\ flags[indices[n]].kind = "Static"
BY DEF IInv, TypeOK, Indexed, IsLibrary, Upgrades

-------------------------------------------------------------------------------
(* What a step does to the flags: it adds one for the token it reads, or   *)
(* none; a library that was seen may be upgraded.                          *)
Unread == UNCHANGED <<input, cinput, cpos, cflags, cseen>>
Rests == UNCHANGED <<pos, flags, seen, indices, region, input, cinput>>

Adds(f) == flags' = Append(flags, f)

AddsOther ==
    /\ Unread /\ pos < Len(input) /\ pos' = pos + 1 /\ UNCHANGED <<seen, indices>>
    /\ \/ /\ Current.type = "dir" /\ UNCHANGED region
          /\ Adds([type |-> "SearchPath", dir |-> Current.dir])
       \/ /\ Current.type = "wl" /\ "keep" \in Current.args /\ region' = RegionAfter(Current.args)
          /\ Adds([type |-> "LinkerArg", args |-> Current.args])

AddsLib(n, k) ==
    /\ Unread /\ pos < Len(input) /\ pos' = pos + 1 /\ UNCHANGED region
    /\ n \in Libs \ seen /\ seen' = seen \cup {n}
    /\ Adds([type |-> "Library", name |-> n, kind |-> k])
    /\ \/ /\ Current.type = "lib" /\ Current.name = n /\ k = KindOf(n)
          /\ indices' = [indices EXCEPT ![n] = Len(flags) + 1]
       \/ Current.type = "pthread" /\ n = Pthread /\ k = "Default" /\ UNCHANGED indices

Repeats(n) ==
    /\ Unread /\ pos < Len(input) /\ pos' = pos + 1 /\ UNCHANGED <<seen, indices, region>>
    /\ n \in seen
    /\ \/ /\ Current.type = "lib" /\ Current.name = n
          /\ flags' = IF Upgrades(n) THEN [flags EXCEPT ![indices[n]].kind = "WholeArchive"]
                                     ELSE flags
       \/ Current.type = "pthread" /\ n = Pthread /\ UNCHANGED flags

AddsNone ==
    /\ Unread /\ pos < Len(input) /\ pos' = pos + 1 /\ UNCHANGED <<flags, seen, indices>>
    /\ \/ Current.type = "wl" /\ "keep" \notin Current.args /\ region' = RegionAfter(Current.args)
       \/ Current.type = "other" /\ UNCHANGED region

LEMMA Steps ==
    ASSUME TypeOK, [Next]_vars
    PROVE  \/ AddsOther \/ AddsNone
           \/ \E n \in Libs, k \in LinkKind : AddsLib(n, k)
           \/ \E n \in Libs : Repeats(n)
           \/ Rests /\ (ReadCflag \/ SkipCflag \/ UNCHANGED vars)
<1> USE DEF Unread, Rests, Adds, Advance, inputVars, cflagVars, libVars
<1>1. CASE ReadDir
  BY <1>1 DEF ReadDir, Reads, AddsOther
<1>2. CASE ReadWl
  BY <1>2 DEF ReadWl, Reads, AddsOther, AddsNone
<1>3. CASE ReadLib
  <2> DEFINE n == Current.name
  <2>1. n \in Libs /\ pos < Len(input) /\ Current.type = "lib"
    BY <1>3, NextToken, TokenShapes DEF ReadLib, Reads
  <2>2. KindOf(n) \in LinkKind
    BY <2>1, KindOfType
  <2>3. CASE n \in seen
    <3>1. Repeats(n)
      BY <1>3, <2>1, <2>3 DEF ReadLib, SeenLibrary, Repeats
    <3> QED
      BY <3>1, <2>1
  <2>4. CASE n \notin seen
    <3>1. AddsLib(n, KindOf(n))
      BY <1>3, <2>1, <2>4 DEF ReadLib, AddLibrary, AddsLib
    <3> QED
      BY <3>1, <2>1, <2>2
  <2> QED
    BY <2>3, <2>4
<1>4. CASE ReadPthread
  <2>1. "Default" \in LinkKind /\ Pthread \in Libs
    BY Names DEF LinkKind
  <2>2. AddsLib(Pthread, "Default")
    BY <1>4, <2>1 DEF ReadPthread, PthreadIsNew, Reads, AddsLib
  <2> QED
    BY <2>1, <2>2
<1>5. CASE Skip
  <2>1. Reads("other") => AddsNone
    BY <1>5 DEF Skip, Reads, AddsNone
  <2>2. Reads("pthread") /\ ~PthreadIsNew => Repeats(Pthread)
    BY <1>5 DEF Skip, Reads, PthreadIsNew, Repeats
  <2> QED
    BY <1>5, <2>1, <2>2, Names DEF Skip
<1>6. CASE ReadCflag \/ SkipCflag \/ UNCHANGED vars
  BY <1>6 DEF ReadCflag, SkipCflag, vars
<1> QED
  BY <1>1, <1>2, <1>3, <1>4, <1>5, <1>6 DEF Next

LEMMA NextType == IInv /\ [Next]_vars => TypeOK'
<1> SUFFICES ASSUME IInv, [Next]_vars PROVE TypeOK'
  OBVIOUS
<1>1. TypeOK
  BY DEF IInv
<1> DEFINE Ranges(f) == f \in Seq(LinkerFlag) /\ Len(f) \in Nat /\ Len(flags) <= Len(f)
<1>2. ASSUME Ranges(flags'), Unread, pos < Len(input), pos' = pos + 1, region' \in BOOLEAN,
             \/ UNCHANGED <<seen, indices>>
             \/ \E n \in Libs : /\ seen' = seen \cup {n}
                                /\ \/ UNCHANGED indices
                                   \/ /\ indices' = [indices EXCEPT ![n] = Len(flags) + 1]
                                      /\ Len(flags) + 1 <= Len(flags')
      PROVE  TypeOK'
  <2>1. pos' \in 0 .. Len(input')
    BY <1>1, <1>2, NextToken DEF Unread
  <2>2. Len(flags) \in Nat
    BY <1>1 DEF TypeOK
  <2>3. seen' \subseteq Libs
    BY <1>1, <1>2 DEF TypeOK
  <2>4. indices' \in [Libs -> 1 .. Len(flags') \cup {None}]
    BY <1>1, <1>2, <2>2 DEF TypeOK
  <2> QED
    BY <1>1, <1>2, <2>1, <2>3, <2>4 DEF TypeOK, Unread
<1>3. ASSUME NEW f \in LinkerFlag, Adds(f) PROVE Ranges(flags') /\ Len(flags') = Len(flags) + 1
  BY <1>1, <1>3, FlagAdded DEF Adds
<1>4. Ranges(flags)
  BY <1>1 DEF TypeOK
<1>5. region \in BOOLEAN /\ \A a \in SUBSET {"whole", "no_whole", "keep"} : RegionAfter(a) \in BOOLEAN
  BY <1>1 DEF TypeOK, RegionAfter
<1>6. pos < Len(input) => Current \in Tokens
  BY <1>1, NextToken
<1>7. CASE AddsOther
  <2>1. \E f \in LinkerFlag : Adds(f)
    BY <1>6, <1>7, TokenShapes, FlagShapes DEF AddsOther
  <2>2. region' \in BOOLEAN
    BY <1>5, <1>6, <1>7, TokenShapes DEF AddsOther
  <2> HIDE DEF Ranges
  <2> QED
    BY <2>1, <2>2, <1>2, <1>3, <1>7 DEF AddsOther
<1>8. CASE AddsNone
  <2>1. region' \in BOOLEAN
    BY <1>5, <1>6, <1>8, TokenShapes DEF AddsNone
  <2> HIDE DEF Ranges
  <2> QED
    BY <2>1, <1>2, <1>4, <1>8 DEF AddsNone
<1>9. ASSUME NEW n \in Libs, NEW k \in LinkKind, AddsLib(n, k) PROVE TypeOK'
  <2>1. [type |-> "Library", name |-> n, kind |-> k] \in LinkerFlag
    BY FlagShapes
  <2>2. Ranges(flags') /\ Len(flags') = Len(flags) + 1 /\ Len(flags) \in Nat
    BY <2>1, <1>3, <1>4, <1>9 DEF AddsLib
  <2>3. Len(flags) + 1 <= Len(flags')
    BY <2>2
  <2> HIDE DEF Ranges
  <2> QED
    BY <2>2, <2>3, <1>2, <1>5, <1>9 DEF AddsLib
<1>10. ASSUME NEW n \in Libs, Repeats(n) PROVE TypeOK'
  <2>1. Ranges(flags')
    <3>1. CASE flags' = flags
      BY <3>1, <1>4
    <3>2. CASE Upgrades(n) /\ flags' = [flags EXCEPT ![indices[n]].kind = "WholeArchive"]
      BY <3>2, <1>1, <1>4, Upgraded, FlagUpgraded
    <3> QED
      BY <3>1, <3>2, <1>10 DEF Repeats
  <2> HIDE DEF Ranges
  <2> QED
    BY <2>1, <1>2, <1>5, <1>10 DEF Repeats
<1>11. ASSUME Rests, ReadCflag \/ SkipCflag \/ UNCHANGED vars PROVE TypeOK'
  <2>1. CASE UNCHANGED vars
    BY <2>1, <1>1 DEF vars, inputVars, libVars, cflagVars, TypeOK
  <2>2. CASE ReadCflag \/ SkipCflag
    <3>1. cpos \in Nat /\ cpos < Len(cinput) /\ cpos' = cpos + 1
      BY <2>2, <1>1, InputType DEF ReadCflag, SkipCflag, ReadsCflag, TypeOK
    <3>2. cpos + 1 \in 1 .. Len(cinput) /\ cpos + 1 \in 0 .. Len(cinput)
      BY <3>1, <1>1, InputType
    <3>3. cinput[cpos + 1] \in CflagToken
      BY <3>2, <1>1, InputType
    <3>4. cseen' \subseteq CTokens /\ cflags' \in Seq(CTokens)
      <4> DEFINE text == cinput[cpos + 1].text
      <4>1. cseen \subseteq CTokens /\ cflags \in Seq(CTokens)
        BY <1>1 DEF TypeOK
      <4>2. CASE SkipCflag
        BY <4>1, <4>2 DEF SkipCflag
      <4>3. CASE ReadCflag
        <5>1. text \in CTokens
          BY <3>3, <4>3, CflagShapes DEF ReadCflag, ReadsCflag
        <5>2. /\ cflags' = IF CflagIsNew(text) THEN Append(cflags, text) ELSE cflags
              /\ cseen' = cseen \cup {text}
          BY <4>3 DEF ReadCflag
        <5> HIDE DEF text
        <5> QED
          BY <4>1, <5>1, <5>2
      <4> QED
        BY <2>2, <4>2, <4>3
    <3> QED
      BY <3>1, <3>2, <3>4, <1>1, <1>11 DEF Rests, TypeOK
  <2> QED
    BY <2>1, <2>2, <1>11
<1> HIDE DEF Ranges
<1> QED
  BY <1>1, <1>7, <1>8, <1>9, <1>10, <1>11, Steps

-------------------------------------------------------------------------------
(* What one more token adds to what was read. *)
Wrapped(n) ==
    \E i \in Read : Mentions(i, n) /\ input[i].type = "lib" /\ Bracketed(i)

LEMMA ReadGrows ==
    ASSUME TypeOK, pos < Len(input), pos' = pos + 1
    PROVE  /\ Read' = Read \cup {pos + 1} /\ pos + 1 \notin Read
           /\ 1 .. (pos + 1) - 1 = Read
           /\ \A i \in Read : i \in Int /\ i < pos + 1
BY NextToken DEF Read

LEMMA Reading ==
    ASSUME TypeOK, SeenRead, pos < Len(input), pos' = pos + 1, UNCHANGED input, NEW n \in Libs
    PROVE  /\ FirstMention(pos + 1, n) <=> Mentions(pos + 1, n) /\ n \notin seen
           /\ ByPthread(n)' <=> \/ ByPthread(n)
                                \/ FirstMention(pos + 1, n) /\ Current.type = "pthread"
           /\ Wrapped(n)' <=> \/ Wrapped(n)
                              \/ Mentions(pos + 1, n) /\ Current.type = "lib" /\ Bracketed(pos + 1)
           /\ (\E i \in Read : Mentions(i, n))' <=>
                  (\E i \in Read : Mentions(i, n)) \/ Mentions(pos + 1, n)
           /\ ByPthread(n) => n \in seen
           /\ Wrapped(n) => n \in seen
<1>1. Read' = Read \cup {pos + 1} /\ 1 .. (pos + 1) - 1 = Read
  BY ReadGrows
<1>2. \A i : /\ Mentions(i, n)' <=> Mentions(i, n)
             /\ FirstMention(i, n)' <=> FirstMention(i, n)
             /\ Bracketed(i)' <=> Bracketed(i)
  BY DEF Mentions, FirstMention, Bracketed, Opens, Closes
<1>3. FirstMention(pos + 1, n) <=> Mentions(pos + 1, n) /\ n \notin seen
  BY <1>1 DEF FirstMention, SeenRead
<1>4. ByPthread(n)' <=> ByPthread(n) \/ (FirstMention(pos + 1, n) /\ Current.type = "pthread")
  BY <1>1, <1>2 DEF ByPthread, Current
<1>5. Wrapped(n)' <=>
          Wrapped(n) \/ (Mentions(pos + 1, n) /\ Current.type = "lib" /\ Bracketed(pos + 1))
  BY <1>1, <1>2 DEF Wrapped, Current
<1>6. (\E i \in Read : Mentions(i, n))' <=> (\E i \in Read : Mentions(i, n)) \/ Mentions(pos + 1, n)
  BY <1>1, <1>2
<1>7. (ByPthread(n) => n \in seen) /\ (Wrapped(n) => n \in seen)
  BY DEF ByPthread, Wrapped, FirstMention, SeenRead
<1> QED
  BY <1>3, <1>4, <1>5, <1>6, <1>7

(* The names that the next token mentions. *)
LEMMA Named ==
    /\ AddsOther \/ AddsNone => \A m \in Libs : ~Mentions(pos + 1, m)
    /\ \A n \in Libs : Repeats(n) \/ (\E k \in LinkKind : AddsLib(n, k)) =>
           \A m \in Libs : Mentions(pos + 1, m) <=> m = n
<1>1. \A m \in Libs : Mentions(pos + 1, m) <=>
          (Current.type = "lib" /\ Current.name = m) \/ (Current.type = "pthread" /\ m = Pthread)
  BY DEF Mentions, Current
<1> QED
  BY <1>1 DEF AddsOther, AddsNone, AddsLib, Repeats

(* The brackets, read one by one. *)
LEMMA NextBracket ==
    ASSUME TypeOK, pos < Len(input)
    PROVE  Bracketed(pos + 2) <=> Opens(pos + 1) \/ (Bracketed(pos + 1) /\ ~Closes(pos + 1))
<1>1. pos \in Nat
  BY DEF TypeOK
<1>2. (pos + 2) - 1 = pos + 1 /\ (pos + 1) - 1 = pos
  BY <1>1
<1>3. 1 .. pos + 1 = (1 .. pos) \cup {pos + 1}
  BY <1>1
<1>4. (pos + 1) + 1 .. pos + 1 = {}
  BY <1>1
<1>5. ASSUME NEW j \in 1 .. pos PROVE j + 1 .. pos + 1 = (j + 1 .. pos) \cup {pos + 1}
  BY <1>1
<1>6. Bracketed(pos + 1) <=> \E j \in 1 .. pos : Opens(j) /\ \A k \in j + 1 .. pos : ~Closes(k)
  BY <1>2 DEF Bracketed
<1>7. Bracketed(pos + 2) <=> \E j \in 1 .. pos + 1 : Opens(j) /\ \A k \in j + 1 .. pos + 1 : ~Closes(k)
  BY <1>2 DEF Bracketed
<1> QED
  BY <1>3, <1>4, <1>5, <1>6, <1>7

LEMMA NextSeen == IInv /\ [Next]_vars => SeenRead'
<1> SUFFICES ASSUME IInv, [Next]_vars PROVE SeenRead'
  OBVIOUS
<1>1. TypeOK /\ SeenRead
  BY DEF IInv
<1>2. ASSUME pos < Len(input), pos' = pos + 1, UNCHANGED input,
             NEW S \in SUBSET Libs, seen' = seen \cup S,
             \A m \in Libs : Mentions(pos + 1, m) => m \in S \cup seen,
             \A m \in S : Mentions(pos + 1, m)
      PROVE  seen' = {n \in Libs : \E i \in Read : Mentions(i, n)}'
  <2>1. \A n \in Libs : (\E i \in Read : Mentions(i, n))' <=> n \in seen \/ Mentions(pos + 1, n)
    BY <1>1, <1>2, Reading DEF SeenRead
  <2>2. \A n \in Libs : (\E i \in Read : Mentions(i, n))' <=> n \in seen'
    BY <1>2, <2>1
  <2>3. seen' \subseteq Libs
    BY <1>1, <1>2 DEF TypeOK
  <2> QED
    BY <2>2, <2>3
<1>3. ASSUME pos < Len(input), pos' = pos + 1, UNCHANGED input,
             IF Current.type = "wl" THEN region' = RegionAfter(Current.args) ELSE region' = region
      PROVE  (region <=> Bracketed(pos + 1))'
  <2>1. Bracketed(pos + 1)' <=> Bracketed(pos + 2)
    <3>1. pos' + 1 = pos + 2
      BY <1>1, <1>3 DEF TypeOK
    <3> QED
      BY <3>1, <1>3 DEF Bracketed, Opens, Closes
  <2>2. region \in BOOLEAN /\ region' \in BOOLEAN
    BY <1>1, <1>3 DEF TypeOK, RegionAfter
  <2>3. region' <=> Opens(pos + 1) \/ (region /\ ~Closes(pos + 1))
    BY <1>3, <2>2 DEF RegionAfter, Opens, Closes, Current
  <2> QED
    BY <1>1, <1>3, <2>1, <2>2, <2>3, NextBracket DEF SeenRead
<1>4. CASE AddsOther \/ AddsNone
  <2>1. /\ pos < Len(input) /\ pos' = pos + 1 /\ UNCHANGED input /\ seen' = seen
        /\ IF Current.type = "wl" THEN region' = RegionAfter(Current.args) ELSE region' = region
    BY <1>4 DEF AddsOther, AddsNone, Unread
  <2> DEFINE S == {}
  <2>2. S \in SUBSET Libs /\ seen' = seen \cup S /\ \A m \in S : Mentions(pos + 1, m)
    BY <2>1
  <2> HIDE DEF S
  <2>3. seen' = {n \in Libs : \E i \in Read : Mentions(i, n)}'
    BY <1>2, <1>4, <2>1, <2>2, Named
  <2> QED
    BY <1>3, <2>1, <2>3 DEF SeenRead
<1>5. ASSUME NEW n \in Libs, Repeats(n) \/ \E k \in LinkKind : AddsLib(n, k) PROVE SeenRead'
  <2>1. /\ pos < Len(input) /\ pos' = pos + 1 /\ UNCHANGED input /\ region' = region
        /\ seen' = seen \cup {n} /\ Current.type # "wl"
    BY <1>5 DEF AddsLib, Repeats, Unread
  <2> DEFINE S == {n}
  <2>2. S \in SUBSET Libs /\ seen' = seen \cup S /\ n \in S /\ \A m \in S : m = n
    BY <2>1
  <2> HIDE DEF S
  <2>3. \A m \in Libs : Mentions(pos + 1, m) <=> m = n
    BY <1>5, Named
  <2>4. seen' = {m \in Libs : \E i \in Read : Mentions(i, m)}'
    BY <1>2, <2>1, <2>2, <2>3
  <2> QED
    BY <1>3, <2>1, <2>4 DEF SeenRead
<1>6. CASE Rests
  BY <1>1, <1>6 DEF Rests, SeenRead, Read, Mentions, Bracketed, Opens, Closes
<1> QED
  BY <1>1, <1>4, <1>5, <1>6, Steps

-------------------------------------------------------------------------------
(* The flag of a token that is no library. *)
LEMMA OtherAdded ==
    ASSUME TypeOK, AddsOther
    PROVE  \E f \in LinkerFlag :
              /\ Adds(f) /\ f.type # "Library"
              /\ \/ Current.type = "dir" /\ f.type = "SearchPath" /\ f.dir = Current.dir
                 \/ Current.type = "wl" /\ f.type = "LinkerArg" /\ f.args = Current.args
<1> DEFINE d == [type |-> "SearchPath", dir |-> Current.dir]
           a == [type |-> "LinkerArg", args |-> Current.args]
<1>1. Current \in Tokens
  BY NextToken DEF AddsOther
<1>2. /\ d.type = "SearchPath" /\ d.dir = Current.dir
      /\ a.type = "LinkerArg" /\ a.args = Current.args
  OBVIOUS
<1>3. /\ Current.type = "dir" => d \in LinkerFlag
      /\ Current.type = "wl" => a \in LinkerFlag
  BY <1>1, TokenShapes, FlagShapes
<1>4. (Current.type = "dir" /\ Adds(d)) \/ (Current.type = "wl" /\ Adds(a))
  BY DEF AddsOther
<1> HIDE DEF d, a
<1> QED
  BY <1>2, <1>3, <1>4

(* The flags of the libraries after a step. *)
LEMMA SameLibraries ==
    ASSUME IInv, AddsOther \/ AddsNone \/ Rests \/ \E n \in Libs : Repeats(n)
    PROVE  \A i \in Int, m \in Libs : IsLibrary(i, m)' <=> IsLibrary(i, m)
<1>1. TypeOK /\ Len(flags) \in Nat
  BY DEF IInv, TypeOK
<1>2. CASE flags' = flags
  BY <1>2 DEF IsLibrary
<1>3. CASE AddsOther
  <2>1. PICK f \in LinkerFlag : Adds(f) /\ f.type # "Library"
    BY <1>1, <1>3, OtherAdded
  <2>2. /\ Len(flags') = Len(flags) + 1 /\ flags'[Len(flags) + 1] = f
        /\ \A i \in 1 .. Len(flags) : flags'[i] = flags[i]
    BY <1>1, <2>1, FlagAdded DEF Adds
  <2>3. \A i \in Int : i \in 1 .. Len(flags') <=> i \in 1 .. Len(flags) \/ i = Len(flags) + 1
    BY <1>1, <2>2
  <2> QED
    BY <2>1, <2>2, <2>3 DEF IsLibrary
<1>4. ASSUME NEW n \in Libs, Repeats(n)
      PROVE  \A i \in Int, m \in Libs : IsLibrary(i, m)' <=> IsLibrary(i, m)
  <2>1. CASE flags' = flags
    BY <2>1 DEF IsLibrary
  <2>2. CASE Upgrades(n) /\ flags' = [flags EXCEPT ![indices[n]].kind = "WholeArchive"]
    <3> DEFINE x == indices[n]
    <3>1. x \in 1 .. Len(flags) /\ flags[x].type = "Library" /\ flags[x].name = n
      BY <2>2, Upgraded
    <3>2. /\ Len(flags') = Len(flags) /\ flags'[x].type = "Library"
          /\ flags'[x].name = flags[x].name
          /\ \A j \in 1 .. Len(flags) : j # x => flags'[j] = flags[j]
      BY <1>1, <2>2, <3>1, FlagUpgraded
    <3> HIDE DEF x
    <3> QED
      BY <3>1, <3>2 DEF IsLibrary
  <2> QED
    BY <1>4, <2>1, <2>2 DEF Repeats
<1> QED
  BY <1>2, <1>3, <1>4 DEF AddsNone, Rests

LEMMA NewLibrary ==
    ASSUME TypeOK, NEW n \in Libs, NEW k \in LinkKind, AddsLib(n, k)
    PROVE  /\ \A i \in Int, m \in Libs : IsLibrary(i, m)' <=>
                  IsLibrary(i, m) \/ (i = Len(flags) + 1 /\ m = n)
           /\ Len(flags) \in Nat /\ flags'[Len(flags) + 1].kind = k
<1> DEFINE f == [type |-> "Library", name |-> n, kind |-> k]
<1>1. f \in LinkerFlag /\ f.type = "Library" /\ f.name = n /\ f.kind = k
  BY FlagShapes
<1>2. Adds(f)
  BY DEF AddsLib
<1> HIDE DEF f
<1>3. /\ Len(flags) \in Nat /\ Len(flags') = Len(flags) + 1 /\ flags'[Len(flags) + 1] = f
      /\ \A i \in 1 .. Len(flags) : flags'[i] = flags[i]
  BY <1>1, <1>2, FlagAdded DEF Adds
<1>4. \A i \in Int : i \in 1 .. Len(flags') <=> i \in 1 .. Len(flags) \/ i = Len(flags) + 1
  BY <1>3
<1>5. Len(flags) + 1 \notin 1 .. Len(flags)
  BY <1>3
<1> QED
  BY <1>1, <1>3, <1>4, <1>5 DEF IsLibrary

LEMMA NextIndexed == IInv /\ [Next]_vars => Indexed'
<1> SUFFICES ASSUME IInv, [Next]_vars PROVE Indexed'
  OBVIOUS
<1>1. TypeOK /\ SeenRead /\ Indexed /\ Len(flags) \in Nat /\ seen \subseteq Libs
  BY DEF IInv, TypeOK
<1>2. ASSUME UNCHANGED <<seen, indices>>,
             \A i \in Int, m \in Libs : IsLibrary(i, m)' <=> IsLibrary(i, m),
             \A m \in seen : ByPthread(m)' <=> ByPthread(m)
      PROVE  Indexed'
  <2>1. \A m \in Libs : indices[m] # None => indices[m] \in Int
    BY <1>1 DEF TypeOK
  <2> QED
    BY <1>1, <1>2, <2>1 DEF Indexed
<1>3. CASE AddsOther \/ AddsNone \/ \E n \in Libs : Repeats(n)
  <2>1. UNCHANGED <<seen, indices>> /\ pos < Len(input) /\ pos' = pos + 1 /\ UNCHANGED input
    BY <1>3 DEF AddsOther, AddsNone, Repeats, Unread
  <2>2. \A m \in seen : ~FirstMention(pos + 1, m)
    BY <1>1, <2>1, Reading
  <2>3. \A m \in seen : ByPthread(m)' <=> ByPthread(m)
    BY <1>1, <2>1, <2>2, Reading
  <2>4. \A i \in Int, m \in Libs : IsLibrary(i, m)' <=> IsLibrary(i, m)
    BY <1>3, SameLibraries
  <2> QED
    BY <1>2, <2>1, <2>3, <2>4
<1>4. CASE Rests
  <2>1. \A m \in seen : ByPthread(m)' <=> ByPthread(m)
    BY <1>4 DEF Rests, ByPthread, Read, FirstMention, Mentions
  <2>2. \A i \in Int, m \in Libs : IsLibrary(i, m)' <=> IsLibrary(i, m)
    BY <1>4, SameLibraries
  <2> QED
    BY <1>2, <1>4, <2>1, <2>2 DEF Rests
<1>5. ASSUME NEW n \in Libs, NEW k \in LinkKind, AddsLib(n, k) PROVE Indexed'
  <2> DEFINE l == Len(flags) + 1
  <2>1. /\ pos < Len(input) /\ pos' = pos + 1 /\ UNCHANGED input
        /\ n \notin seen /\ seen' = seen \cup {n}
    BY <1>5 DEF AddsLib, Unread
  <2>2. \A i \in Int, m \in Libs : IsLibrary(i, m)' <=> IsLibrary(i, m) \/ (i = l /\ m = n)
    BY <1>1, <1>5, NewLibrary
  <2>3. l \in Int /\ l # None
    BY <1>1, Names
  <2> HIDE DEF l
  <2>4. \A i \in Int : ~IsLibrary(i, n)
    BY <1>1, <2>1 DEF Indexed
  <2>5. \A m \in Libs : indices[m] # None => indices[m] \in Int
    BY <1>1 DEF TypeOK
  <2>6. indices[n] = None
    BY <1>1, <2>4, <2>5 DEF Indexed
  <2>7. Mentions(pos + 1, n)
    BY <1>5, Named
  <2>8. \A m \in seen : ByPthread(m)' <=> ByPthread(m)
    BY <1>1, <2>1, Reading
  <2>9. ByPthread(n)' <=> Current.type = "pthread"
    BY <1>1, <2>1, <2>7, Reading
  <2>10. /\ \A m \in Libs : m # n => indices'[m] = indices[m]
         /\ indices'[n] = (IF Current.type = "pthread" THEN None ELSE l)
    BY <1>1, <1>5, <2>6 DEF AddsLib, TypeOK, l
  <2>11. \A i \in Int, m \in Libs : IsLibrary(i, m)' => m \in seen'
    BY <1>1, <2>1, <2>2 DEF Indexed
  <2>12. \A i, j \in Int, m \in Libs : IsLibrary(i, m)' /\ IsLibrary(j, m)' => i = j
    BY <1>1, <2>2, <2>4 DEF Indexed
  <2>13. ASSUME NEW m \in Libs, indices'[m] # None PROVE IsLibrary(indices[m], m)'
    <3>1. \E i \in Int : i = indices'[m] /\ IsLibrary(i, m)'
      <4>1. CASE m = n
        BY <4>1, <2>2, <2>3, <2>10, <2>13
      <4>2. CASE m # n
        BY <4>2, <1>1, <2>2, <2>5, <2>10, <2>13 DEF Indexed
      <4> QED
        BY <4>1, <4>2
    <3> QED
      BY <3>1 DEF IsLibrary
  <2>14. \A m \in seen' : indices'[m] = None <=> ByPthread(m)'
    <3> SUFFICES ASSUME NEW m \in seen' PROVE indices'[m] = None <=> ByPthread(m)'
      OBVIOUS
    <3>1. CASE m = n
      BY <3>1, <2>3, <2>9, <2>10
    <3>2. CASE m # n
      BY <3>2, <1>1, <2>1, <2>8, <2>10 DEF Indexed
    <3> QED
      BY <3>1, <3>2
  <2> QED
    BY <2>11, <2>12, <2>13, <2>14 DEF Indexed
<1> QED
  BY <1>1, <1>3, <1>4, <1>5, Steps

-------------------------------------------------------------------------------
(* KindIsGiven, name by name. *)
LEMMA KindByName ==
    /\ TypeOK => (KindIsGiven <=>
           \A i \in Int, m \in Libs : IsLibrary(i, m) => flags[i].kind = Given(m))
    /\ TypeOK' => (KindIsGiven' <=>
           \A i \in Int, m \in Libs : IsLibrary(i, m)' => flags'[i].kind = Given(m)')
<1>1. ASSUME TypeOK PROVE KindIsGiven <=>
          \A i \in Int, m \in Libs : IsLibrary(i, m) => flags[i].kind = Given(m)
  <2>1. /\ DOMAIN flags = 1 .. Len(flags)
        /\ \A i \in 1 .. Len(flags) : i \in Int /\ flags[i] \in LinkerFlag
    BY <1>1 DEF TypeOK
  <2>2. \A i \in 1 .. Len(flags) : flags[i].type = "Library" => flags[i].name \in Libs
    BY <2>1, FlagShapes
  <2> QED
    BY <2>1, <2>2 DEF KindIsGiven, IsLibrary
<1>2. ASSUME TypeOK' PROVE KindIsGiven' <=>
          \A i \in Int, m \in Libs : IsLibrary(i, m)' => flags'[i].kind = Given(m)'
  <2>1. /\ DOMAIN flags' = 1 .. Len(flags')
        /\ \A i \in 1 .. Len(flags') : i \in Int /\ flags'[i] \in LinkerFlag
    BY <1>2 DEF TypeOK
  <2>2. \A i \in 1 .. Len(flags') : flags'[i].type = "Library" => flags'[i].name \in Libs
    BY <2>1, FlagShapes
  <2> QED
    BY <2>1, <2>2 DEF KindIsGiven, IsLibrary
<1> QED
  BY <1>1, <1>2

LEMMA GivenIs ==
    ASSUME TypeOK, NEW n
    PROVE  Given(n) = IF ~IsStaticAvailable(n) \/ ByPthread(n) THEN "Default"
                      ELSE IF n \in Forced \/ Wrapped(n) THEN "WholeArchive" ELSE "Static"
<1>1. (\E i \in DOMAIN input : /\ input[i].type = "dir" /\ input[i].dir \notin SystemDirs
                               /\ <<input[i].dir, n>> \in Archives) <=> IsStaticAvailable(n)
  BY DEF IsStaticAvailable, LibDirs
<1> QED
  BY <1>1 DEF Given, Promised, ByPthread, Wrapped

LEMMA NextGiven ==
    ASSUME TypeOK, TypeOK', UNCHANGED input, NEW n \in Libs
    PROVE  Given(n)' = IF ~IsStaticAvailable(n) \/ ByPthread(n)' THEN "Default"
                       ELSE IF n \in Forced \/ Wrapped(n)' THEN "WholeArchive" ELSE "Static"
<1>1. IsStaticAvailable(n)' <=> IsStaticAvailable(n)
  BY DEF IsStaticAvailable, LibDirs
<1>2. (\E i \in DOMAIN input : /\ input[i].type = "dir" /\ input[i].dir \notin SystemDirs
                               /\ <<input[i].dir, n>> \in Archives) <=> IsStaticAvailable(n)
  BY DEF IsStaticAvailable, LibDirs
<1> QED
  BY <1>1, <1>2 DEF Given, Promised, ByPthread, Wrapped

LEMMA NextKind == IInv /\ [Next]_vars => KindIsGiven'
<1> SUFFICES ASSUME IInv, [Next]_vars PROVE KindIsGiven'
  OBVIOUS
<1>1. TypeOK /\ TypeOK' /\ SeenRead /\ Indexed
  BY NextType DEF IInv
<1>2. \A i \in Int, m \in Libs : IsLibrary(i, m) => flags[i].kind = Given(m)
  BY <1>1, KindByName DEF IInv
<1>3. ASSUME UNCHANGED input, NEW m \in Libs,
             ByPthread(m)' <=> ByPthread(m), Wrapped(m)' <=> Wrapped(m)
      PROVE  Given(m)' = Given(m)
  BY <1>1, <1>3, GivenIs, NextGiven
<1>4. ASSUME pos < Len(input), pos' = pos + 1, UNCHANGED input, NEW m \in Libs, ~Mentions(pos + 1, m)
      PROVE  Given(m)' = Given(m)
  BY <1>1, <1>3, <1>4, Reading
<1>5. CASE AddsOther \/ AddsNone
  <2>1. pos < Len(input) /\ pos' = pos + 1 /\ UNCHANGED input
    BY <1>5 DEF AddsOther, AddsNone, Unread
  <2>2. \A m \in Libs : Given(m)' = Given(m)
    BY <2>1, <1>4, <1>5, Named
  <2>3. \A i \in Int, m \in Libs : IsLibrary(i, m)' <=> IsLibrary(i, m)
    BY <1>5, SameLibraries
  <2>4. \A i \in 1 .. Len(flags) : flags'[i] = flags[i]
    BY <1>1, <1>5, OtherAdded, FlagAdded DEF AddsNone, Adds
  <2> QED
    BY <1>1, <1>2, <2>2, <2>3, <2>4, KindByName DEF IsLibrary
<1>6. CASE Rests
  <2>1. \A m \in Libs : Given(m)' = Given(m)
    BY <1>3, <1>6 DEF Rests, ByPthread, Wrapped, Read, FirstMention, Mentions, Bracketed, Opens,
       Closes
  <2>2. flags' = flags
    BY <1>6 DEF Rests
  <2> QED
    BY <1>1, <1>2, <2>1, <2>2, KindByName DEF IsLibrary
<1>7. ASSUME NEW n \in Libs, NEW k \in LinkKind, AddsLib(n, k) PROVE KindIsGiven'
  <2>1. /\ pos < Len(input) /\ pos' = pos + 1 /\ UNCHANGED input /\ n \notin seen
        /\ \A m \in Libs : Mentions(pos + 1, m) <=> m = n
    BY <1>7, Named DEF AddsLib, Unread
  <2>2. \A m \in Libs : m # n => Given(m)' = Given(m)
    BY <2>1, <1>4
  <2>3. /\ ByPthread(n)' <=> Current.type = "pthread"
        /\ Wrapped(n)' <=> Current.type = "lib" /\ region
    BY <1>1, <2>1, Reading DEF SeenRead
  <2>4. Given(n)' = k
    <3>1. CASE Current.type = "lib" /\ k = KindOf(n)
      BY <1>1, <2>1, <2>3, <3>1, NextGiven DEF KindOf
    <3>2. CASE Current.type = "pthread" /\ k = "Default"
      BY <1>1, <2>1, <2>3, <3>2, NextGiven
    <3> QED
      BY <1>7, <3>1, <3>2 DEF AddsLib
  <2>5. /\ \A i \in Int, m \in Libs : IsLibrary(i, m)' <=>
               IsLibrary(i, m) \/ (i = Len(flags) + 1 /\ m = n)
        /\ flags'[Len(flags) + 1].kind = k
    BY <1>1, <1>7, NewLibrary
  <2>6. \A i \in 1 .. Len(flags) : flags'[i] = flags[i]
    BY <1>1, <1>7 DEF AddsLib, Adds, TypeOK
  <2>7. \A i \in Int : ~IsLibrary(i, n)
    BY <1>1, <2>1 DEF Indexed
  <2>8. \A i \in Int, m \in Libs : IsLibrary(i, m) => flags'[i].kind = Given(m)'
    BY <1>2, <2>2, <2>6, <2>7 DEF IsLibrary
  <2> QED
    BY <1>1, <2>4, <2>5, <2>8, KindByName
<1>8. ASSUME NEW n \in Libs, Repeats(n) PROVE KindIsGiven'
  <2>1. /\ pos < Len(input) /\ pos' = pos + 1 /\ UNCHANGED input /\ n \in seen
        /\ \A m \in Libs : Mentions(pos + 1, m) <=> m = n
    BY <1>8, Named DEF Repeats, Unread
  <2>2. \A m \in Libs : m # n => Given(m)' = Given(m)
    BY <2>1, <1>4
  <2>3. /\ ByPthread(n)' <=> ByPthread(n)
        /\ Wrapped(n)' <=> Wrapped(n) \/ (Current.type = "lib" /\ region)
    BY <1>1, <2>1, Reading DEF SeenRead
  <2>4. \A i \in Int, m \in Libs : IsLibrary(i, m)' <=> IsLibrary(i, m)
    BY <1>8, SameLibraries
  <2>5. CASE Upgrades(n) /\ flags' = [flags EXCEPT ![indices[n]].kind = "WholeArchive"]
                         /\ Current.type = "lib"
    <3> DEFINE x == indices[n]
    <3>1. /\ x \in 1 .. Len(flags) /\ flags[x].type = "Library" /\ flags[x].name = n
          /\ flags[x].kind = "Static"
      BY <2>5, Upgraded
    <3>2. /\ flags'[x].kind = "WholeArchive"
          /\ \A j \in 1 .. Len(flags) : j # x => flags'[j] = flags[j]
      BY <1>1, <2>5, <3>1, FlagUpgraded
    <3> HIDE DEF x
    <3>3. IsLibrary(x, n) /\ x \in Int
      BY <3>1 DEF IsLibrary
    <3>4. Given(n) = "Static"
      BY <1>2, <3>1, <3>3
    <3>5. Given(n)' = "WholeArchive"
      BY <1>1, <2>1, <2>3, <2>5, <3>4, GivenIs, NextGiven DEF Upgrades
    <3>6. \A i \in Int, m \in Libs : IsLibrary(i, m) /\ m = n => i = x
      BY <1>1, <3>3 DEF Indexed
    <3>7. \A i \in Int, m \in Libs : IsLibrary(i, m) /\ m # n => i # x
      BY <3>1 DEF IsLibrary
    <3>8. \A i \in Int, m \in Libs : IsLibrary(i, m) => flags'[i].kind = Given(m)'
      BY <1>2, <2>2, <3>2, <3>5, <3>6, <3>7 DEF IsLibrary
    <3> QED
      BY <1>1, <2>4, <3>8, KindByName
  <2>6. CASE flags' = flags /\ (Current.type = "lib" => ~Upgrades(n))
    <3>1. Given(n)' = Given(n)
      <4>1. CASE Wrapped(n)' <=> Wrapped(n)
        BY <1>3, <2>1, <2>3, <4>1
      <4>2. CASE region /\ ~Upgrades(n)
        <5>1. CASE indices[n] = None
          <6>1. ByPthread(n)
            BY <1>1, <2>1, <5>1 DEF Indexed
          <6> QED
            BY <1>1, <2>1, <2>3, <6>1, GivenIs, NextGiven
        <5>2. CASE indices[n] # None
          <6>1. IsLibrary(indices[n], n) /\ indices[n] \in Int
            BY <1>1, <5>2 DEF Indexed, TypeOK
          <6>2. Given(n) # "Static"
            BY <1>2, <4>2, <5>2, <6>1 DEF Upgrades
          <6> QED
            BY <1>1, <2>1, <2>3, <6>2, GivenIs, NextGiven
        <5> QED
          BY <5>1, <5>2
      <4> QED
        BY <2>3, <2>6, <4>1, <4>2
    <3> QED
      BY <1>1, <1>2, <2>2, <2>4, <2>6, <3>1, KindByName
  <2> QED
    BY <1>8, <2>5, <2>6 DEF Repeats
<1> QED
  BY <1>1, <1>5, <1>6, <1>7, <1>8, Steps

-------------------------------------------------------------------------------
(* OrderKept for each of the two outputs.                                  *)
Emitting == {i \in Read : Emits(i)}
Flagged ==
    /\ Len(flags) = Cardinality(Emitting)
    /\ \A i \in Emitting : Describes(flags[Rank(i, Emitting)], i)

CEmitting == {i \in 1 .. cpos : CEmits(i)}
CFlagged ==
    /\ Len(cflags) = Cardinality(CEmitting)
    /\ \A i \in CEmitting : cflags[Rank(i, CEmitting)] = cinput[i].text

LEMMA BothOrders ==
    /\ OrderKept <=> Flagged /\ CFlagged
    /\ OrderKept' <=> Flagged' /\ CFlagged'
BY DEF OrderKept, Flagged, CFlagged, Emitting, CEmitting

(* The next position comes last, and leaves the others their ranks. *)
LEMMA Ranks ==
    ASSUME NEW p \in Nat, NEW S \in SUBSET (1 .. p)
    PROVE  /\ Cardinality(S) \in Nat
           /\ Cardinality(S \cup {p + 1}) = Cardinality(S) + 1
           /\ Rank(p + 1, S \cup {p + 1}) = Cardinality(S) + 1
           /\ \A i \in S : /\ Rank(i, S) \in 1 .. Cardinality(S)
                           /\ Rank(i, S \cup {p + 1}) = Rank(i, S)
<1> DEFINE T == S \cup {p + 1}
<1>1. IsFiniteSet(S) /\ Cardinality(S) \in Nat
  <2>1. IsFiniteSet(1 .. p)
    BY FS_Interval
  <2>2. IsFiniteSet(S)
    BY <2>1, FS_Subset
  <2> QED
    BY <2>2, FS_CardinalityType
<1>2. p + 1 \notin S
  OBVIOUS
<1>3. Cardinality(T) = Cardinality(S) + 1
  BY <1>1, <1>2, FS_AddElement
<1>4. Rank(p + 1, T) = Cardinality(S) + 1
  <2>1. \A j \in T : j <= p + 1
    OBVIOUS
  <2> HIDE DEF T
  <2>2. {j \in T : j <= p + 1} = T
    BY <2>1
  <2> QED
    BY <2>2, <1>3 DEF Rank
<1>5. ASSUME NEW i \in S PROVE Rank(i, S) \in 1 .. Cardinality(S) /\ Rank(i, T) = Rank(i, S)
  <2> DEFINE R == {j \in S : j <= i}
  <2>1. i \in R /\ R \subseteq S
    OBVIOUS
  <2>2. {j \in T : j <= i} = R
    OBVIOUS
  <2>3. Rank(i, S) = Cardinality(R) /\ Rank(i, T) = Cardinality(R)
    BY <2>2 DEF Rank
  <2> HIDE DEF R, T
  <2>4. IsFiniteSet(R) /\ Cardinality(R) <= Cardinality(S)
    BY <1>1, <2>1, FS_Subset
  <2>5. Cardinality(R) \in Nat /\ Cardinality(R) # 0
    BY <2>1, <2>4, FS_CardinalityType, FS_EmptySet
  <2> QED
    BY <1>1, <2>3, <2>4, <2>5
<1> QED
  BY <1>1, <1>3, <1>4, <1>5

LEMMA EmitsNext ==
    ASSUME TypeOK, pos < Len(input), pos' = pos + 1, UNCHANGED input
    PROVE  /\ pos \in Nat /\ Emitting \in SUBSET (1 .. pos)
           /\ Emits(pos + 1) => Emitting' = Emitting \cup {pos + 1}
           /\ ~Emits(pos + 1) => Emitting' = Emitting
           /\ \A f, i : Describes(f, i)' <=> Describes(f, i)
<1>1. pos \in Nat /\ Read' = Read \cup {pos + 1} /\ Read = 1 .. pos
  BY ReadGrows, NextToken DEF Read
<1>2. \A i : Emits(i)' <=> Emits(i)
  BY DEF Emits, FirstMention, Mentions
<1>3. \A f, i : Describes(f, i)' <=> Describes(f, i)
  BY DEF Describes, FirstMention, Mentions
<1>4. Emitting \in SUBSET (1 .. pos)
  BY <1>1 DEF Emitting
<1>5. /\ Emits(pos + 1) => Emitting' = Emitting \cup {pos + 1}
      /\ ~Emits(pos + 1) => Emitting' = Emitting
  BY <1>1, <1>2 DEF Emitting
<1> QED
  BY <1>1, <1>3, <1>4, <1>5

LEMMA FlaggedOne ==
    ASSUME TypeOK, Flagged, pos < Len(input), pos' = pos + 1, UNCHANGED input,
           NEW f \in LinkerFlag, Adds(f), Emits(pos + 1), Describes(f, pos + 1)
    PROVE  Flagged'
<1> DEFINE E == Emitting
           n == Cardinality(E)
<1>1. /\ pos \in Nat /\ E \in SUBSET (1 .. pos)
      /\ Emitting' = E \cup {pos + 1}
      /\ \A g, i : Describes(g, i)' <=> Describes(g, i)
  BY EmitsNext
<1>2. /\ Len(flags) = n /\ Len(flags') = n + 1 /\ flags'[n + 1] = f
      /\ \A i \in 1 .. n : flags'[i] = flags[i]
  BY FlagAdded DEF Adds, Flagged
<1>3. \A i \in E : Describes(flags[Rank(i, E)], i)
  BY DEF Flagged
<1> HIDE DEF E
<1>4. /\ Cardinality(E \cup {pos + 1}) = n + 1 /\ Rank(pos + 1, E \cup {pos + 1}) = n + 1
      /\ \A i \in E : Rank(i, E) \in 1 .. n /\ Rank(i, E \cup {pos + 1}) = Rank(i, E)
  BY <1>1, Ranks
<1> HIDE DEF n
<1>5. ASSUME NEW i \in E \cup {pos + 1}
      PROVE  Describes(flags'[Rank(i, E \cup {pos + 1})], i)
  <2>1. CASE i = pos + 1
    BY <1>2, <1>4, <2>1
  <2>2. CASE i \in E
    BY <1>2, <1>3, <1>4, <2>2
  <2> QED
    BY <2>1, <2>2
<1>6. \A i \in Emitting' : Describes(flags[Rank(i, Emitting)], i)'
  <2> SUFFICES ASSUME NEW i \in E \cup {pos + 1} PROVE Describes(flags[Rank(i, Emitting)], i)'
    BY <1>1
  <2> DEFINE r == Rank(i, E \cup {pos + 1})
  <2>1. Rank(i, Emitting)' = r
    BY <1>1 DEF Rank
  <2> HIDE DEF r
  <2>2. Describes(flags'[r], i)
    BY <1>5 DEF r
  <2> QED
    BY <2>1, <2>2 DEF Describes, FirstMention, Mentions
<1> QED
  BY <1>1, <1>2, <1>4, <1>6 DEF Flagged

LEMMA FlaggedNone ==
    ASSUME TypeOK, Flagged, pos < Len(input), pos' = pos + 1, UNCHANGED input,
           ~Emits(pos + 1), Len(flags') = Len(flags),
           \A j \in 1 .. Len(flags) : \A i : Describes(flags[j], i) => Describes(flags'[j], i)
    PROVE  Flagged'
<1> DEFINE E == Emitting
<1>1. pos \in Nat /\ E \in SUBSET (1 .. pos) /\ Emitting' = E
  BY EmitsNext
<1>2. Len(flags) = Cardinality(E) /\ \A i \in E : Describes(flags[Rank(i, E)], i)
  BY DEF Flagged
<1> HIDE DEF E
<1>3. \A i \in E : Rank(i, E) \in 1 .. Len(flags)
  BY <1>1, <1>2, Ranks
<1>4. \A i \in E : Describes(flags'[Rank(i, E)], i)
  BY <1>2, <1>3
<1>5. ASSUME NEW i \in E PROVE Describes(flags[Rank(i, Emitting)], i)'
  <2> DEFINE r == Rank(i, E)
  <2>1. Rank(i, Emitting)' = r
    BY <1>1 DEF Rank
  <2>2. Describes(flags'[r], i)
    BY <1>4, <1>5
  <2> HIDE DEF r
  <2> QED
    BY <2>1, <2>2 DEF Describes, FirstMention, Mentions
<1> QED
  BY <1>1, <1>2, <1>5 DEF Flagged

LEMMA FlaggedRests ==
    ASSUME Flagged, UNCHANGED <<pos, flags, input>>
    PROVE  Flagged'
<1>1. Emitting' = Emitting /\ \A f, i : Describes(f, i)' <=> Describes(f, i)
  BY DEF Emitting, Read, Emits, Describes, FirstMention, Mentions
<1>2. \A i \in Emitting : Rank(i, Emitting)' = Rank(i, Emitting)
  BY <1>1 DEF Rank
<1>3. ASSUME NEW i \in Emitting PROVE Describes(flags[Rank(i, Emitting)], i)'
  <2> DEFINE r == Rank(i, Emitting)
  <2>1. Rank(i, Emitting)' = r
    BY <1>2
  <2>2. Describes(flags[r], i)
    BY DEF Flagged
  <2> HIDE DEF r
  <2> QED
    BY <2>1, <2>2 DEF Describes, FirstMention, Mentions
<1> QED
  BY <1>1, <1>3 DEF Flagged

(* Which tokens make a flag. *)
LEMMA EmitsIs ==
    ASSUME TypeOK, SeenRead, pos < Len(input), pos' = pos + 1, UNCHANGED input
    PROVE  Emits(pos + 1) <=> \/ Current.type = "dir"
                              \/ Current.type = "wl" /\ "keep" \in Current.args
                              \/ \E n \in Libs : Mentions(pos + 1, n) /\ n \notin seen
BY Reading DEF Emits, Current

LEMMA NextFlagged == IInv /\ [Next]_vars => Flagged'
<1> SUFFICES ASSUME IInv, [Next]_vars PROVE Flagged'
  OBVIOUS
<1>1. TypeOK /\ SeenRead /\ Flagged
  BY BothOrders DEF IInv
<1>2. CASE AddsOther
  <2>1. pos < Len(input) /\ pos' = pos + 1 /\ UNCHANGED input
    BY <1>2 DEF AddsOther, Unread
  <2>2. PICK f \in LinkerFlag :
              /\ Adds(f) /\ f.type # "Library"
              /\ \/ Current.type = "dir" /\ f.type = "SearchPath" /\ f.dir = Current.dir
                 \/ Current.type = "wl" /\ f.type = "LinkerArg" /\ f.args = Current.args
    BY <1>1, <1>2, OtherAdded
  <2>3. Emits(pos + 1)
    BY <1>2 DEF AddsOther, Emits, Current
  <2>4. Describes(f, pos + 1)
    BY <2>2 DEF Describes, Current
  <2> QED
    BY <1>1, <2>1, <2>2, <2>3, <2>4, FlaggedOne
<1>3. ASSUME NEW n \in Libs, NEW k \in LinkKind, AddsLib(n, k) PROVE Flagged'
  <2> DEFINE f == [type |-> "Library", name |-> n, kind |-> k]
  <2>1. pos < Len(input) /\ pos' = pos + 1 /\ UNCHANGED input /\ n \notin seen /\ Adds(f)
    BY <1>3 DEF AddsLib, Unread
  <2>2. f \in LinkerFlag /\ f.type = "Library" /\ f.name = n
    BY FlagShapes
  <2> HIDE DEF f
  <2>3. Mentions(pos + 1, n)
    BY <1>3, Named
  <2>4. FirstMention(pos + 1, n)
    BY <1>1, <2>1, <2>3, Reading
  <2>5. Emits(pos + 1) /\ Describes(f, pos + 1)
    BY <2>2, <2>4 DEF Emits, Describes
  <2> QED
    BY <1>1, <2>1, <2>2, <2>5, FlaggedOne
<1>4. ASSUME NEW n \in Libs, Repeats(n) PROVE Flagged'
  <2>1. pos < Len(input) /\ pos' = pos + 1 /\ UNCHANGED input /\ n \in seen
    BY <1>4 DEF Repeats, Unread
  <2>2. ~Emits(pos + 1)
    <3>1. \A m \in Libs : Mentions(pos + 1, m) <=> m = n
      BY <1>4, Named
    <3>2. Current.type \notin {"dir", "wl"}
      BY <1>4 DEF Repeats
    <3> QED
      BY <1>1, <2>1, <3>1, <3>2, EmitsIs
  <2>3. /\ Len(flags') = Len(flags)
        /\ \A j \in 1 .. Len(flags) : \A i : Describes(flags[j], i) => Describes(flags'[j], i)
    <3>1. CASE flags' = flags
      BY <3>1
    <3>2. CASE Upgrades(n) /\ flags' = [flags EXCEPT ![indices[n]].kind = "WholeArchive"]
      <4> DEFINE x == indices[n]
      <4>1. /\ x \in 1 .. Len(flags) /\ flags[x].type = "Library"
            /\ flags' = [flags EXCEPT ![x].kind = "WholeArchive"]
        BY <3>2, Upgraded
      <4> HIDE DEF x
      <4>2. /\ Len(flags') = Len(flags)
            /\ flags'[x].type = "Library" /\ flags'[x].name = flags[x].name
            /\ \A j \in 1 .. Len(flags) : j # x => flags'[j] = flags[j]
        BY <1>1, <4>1, FlagUpgraded
      <4>3. \A i : Describes(flags[x], i) => Describes(flags'[x], i)
        BY <4>1, <4>2 DEF Describes
      <4> QED
        BY <4>2, <4>3
    <3> QED
      BY <3>1, <3>2, <1>4 DEF Repeats
  <2> QED
    BY <1>1, <2>1, <2>2, <2>3, FlaggedNone
<1>5. CASE AddsNone
  <2>1. pos < Len(input) /\ pos' = pos + 1 /\ UNCHANGED <<input, flags>>
    BY <1>5 DEF AddsNone, Unread
  <2>2. ~Emits(pos + 1)
    <3>1. \A m \in Libs : ~Mentions(pos + 1, m)
      BY <1>5, Named
    <3>2. Current.type # "dir" /\ ~(Current.type = "wl" /\ "keep" \in Current.args)
      BY <1>5 DEF AddsNone
    <3> QED
      BY <1>1, <2>1, <3>1, <3>2, EmitsIs
  <2> QED
    BY <1>1, <2>1, <2>2, FlaggedNone
<1>6. CASE Rests
  BY <1>1, <1>6, FlaggedRests DEF Rests
<1> QED
  BY <1>1, <1>2, <1>3, <1>4, <1>5, <1>6, Steps
-------------------------------------------------------------------------------
(* The same for parse_cflags: a token makes a flag when its text is new. *)
LEMMA NextCflag ==
    ASSUME TypeOK, NEW type, ReadsCflag(type)
    PROVE  /\ cpos \in Nat /\ (cpos + 1) - 1 = cpos
           /\ 1 .. cpos + 1 = (1 .. cpos) \cup {cpos + 1}
           /\ \A j \in 1 .. cpos + 1 : cinput[j] \in CflagToken
           /\ cinput[cpos + 1].type = type
<1>1. cpos \in Nat /\ cpos + 1 <= Len(cinput) /\ cinput \in Seq(CflagToken) /\ Len(cinput) \in Nat
  BY InputType DEF ReadsCflag, TypeOK
<1>2. \A j \in 1 .. cpos + 1 : cinput[j] \in CflagToken
  BY <1>1
<1> QED
  BY <1>1, <1>2 DEF ReadsCflag

LEMMA CEmitsIs ==
    ASSUME TypeOK, CSeenRead, ReadsCflag("cflag")
    PROVE  CEmits(cpos + 1) <=> CflagIsNew(cinput[cpos + 1].text)
<1> DEFINE k == cinput[cpos + 1]
<1>1. /\ (cpos + 1) - 1 = cpos /\ k \in CflagToken /\ k.type = "cflag"
      /\ \A j \in 1 .. cpos : cinput[j] \in CflagToken
  BY NextCflag
<1>2. CEmits(cpos + 1) <=> \A j \in 1 .. cpos : cinput[j] # k
  BY <1>1 DEF CEmits
<1>3. CflagIsNew(k.text) <=>
          ~\E j \in 1 .. cpos : cinput[j].type = "cflag" /\ cinput[j].text = k.text
  BY DEF CflagIsNew, CSeenRead
<1> HIDE DEF k
<1>4. \A j \in 1 .. cpos :
          cinput[j] = k <=> cinput[j].type = "cflag" /\ cinput[j].text = k.text
  BY <1>1, CflagShapes
<1>5. CEmits(cpos + 1) <=> CflagIsNew(k.text)
  BY <1>2, <1>3, <1>4
<1> QED
  BY <1>5 DEF k

LEMMA CEmitting1 ==
    ASSUME TypeOK, NEW type, ReadsCflag(type), cpos' = cpos + 1, UNCHANGED cinput
    PROVE  /\ cpos \in Nat /\ CEmitting \in SUBSET (1 .. cpos)
           /\ CEmits(cpos + 1) => CEmitting' = CEmitting \cup {cpos + 1}
           /\ ~CEmits(cpos + 1) => CEmitting' = CEmitting
<1>1. cpos \in Nat /\ 1 .. cpos + 1 = (1 .. cpos) \cup {cpos + 1}
  BY NextCflag
<1>2. \A i : CEmits(i)' <=> CEmits(i)
  BY DEF CEmits
<1>3. CEmitting \in SUBSET (1 .. cpos)
  BY DEF CEmitting
<1>4. CEmitting' = {i \in (1 .. cpos) \cup {cpos + 1} : CEmits(i)}
  BY <1>1, <1>2 DEF CEmitting
<1> QED
  BY <1>1, <1>3, <1>4 DEF CEmitting

(* No flag comes with the token, or no token is read. *)
LEMMA CFlaggedNone ==
    ASSUME CFlagged, CEmitting' = CEmitting, UNCHANGED <<cflags, cinput>>
    PROVE  CFlagged'
<1> DEFINE E == CEmitting
<1>1. \A i \in E : cflags[Rank(i, E)] = cinput[i].text
  BY DEF CFlagged
<1>2. \A i : Rank(i, CEmitting)' = Rank(i, E)
  BY DEF Rank
<1> HIDE DEF E
<1>3. \A i \in E : (cflags[Rank(i, CEmitting)] = cinput[i].text)'
  BY <1>1, <1>2
<1> QED
  BY <1>3 DEF CFlagged, E

LEMMA CFlaggedOne ==
    ASSUME TypeOK, CFlagged, CSeenRead, ReadsCflag("cflag"), cpos' = cpos + 1, UNCHANGED cinput,
           CflagIsNew(cinput[cpos + 1].text), cflags' = Append(cflags, cinput[cpos + 1].text)
    PROVE  CFlagged'
<1> DEFINE E == CEmitting
           F == E \cup {cpos + 1}
           n == Cardinality(E)
           text == cinput[cpos + 1].text
<1>1. cpos \in Nat /\ E \in SUBSET (1 .. cpos) /\ CEmitting' = F
  BY CEmitting1, CEmitsIs
<1>2. Len(cflags) = n /\ \A i \in E : cflags[Rank(i, E)] = cinput[i].text
  BY DEF CFlagged
<1>3. text \in CTokens /\ cflags \in Seq(CTokens)
  <2>1. cinput[cpos + 1] \in CflagToken /\ cinput[cpos + 1].type = "cflag"
    BY NextCflag
  <2> QED
    BY <2>1, CflagShapes DEF TypeOK
<1>4. cflags' = Append(cflags, text)
  OBVIOUS
<1> HIDE DEF E, text
<1>5. /\ Cardinality(F) = n + 1 /\ Rank(cpos + 1, F) = n + 1
      /\ \A i \in E : Rank(i, E) \in 1 .. n /\ Rank(i, F) = Rank(i, E)
  BY <1>1, Ranks
<1> HIDE DEF n
<1>6. /\ Len(cflags') = n + 1 /\ cflags'[n + 1] = text
      /\ \A r \in 1 .. n : cflags'[r] = cflags[r]
  BY <1>2, <1>3, <1>4
<1>7. ASSUME NEW i \in F PROVE cflags'[Rank(i, F)] = cinput[i].text
  <2>1. CASE i = cpos + 1
    BY <1>5, <1>6, <2>1 DEF text
  <2>2. CASE i \in E
    BY <1>2, <1>5, <1>6, <2>2
  <2> QED
    BY <2>1, <2>2
<1> HIDE DEF F
<1>8. \A i : Rank(i, CEmitting)' = Rank(i, F)
  BY <1>1 DEF Rank
<1>9. \A i \in CEmitting' : (cflags[Rank(i, CEmitting)] = cinput[i].text)'
  BY <1>1, <1>7, <1>8
<1> QED
  BY <1>1, <1>5, <1>6, <1>9 DEF CFlagged

LEMMA NextCFlagged == IInv /\ [Next]_vars => CSeenRead' /\ CFlagged'
<1> SUFFICES ASSUME IInv, [Next]_vars PROVE CSeenRead' /\ CFlagged'
  OBVIOUS
<1>1. TypeOK /\ CSeenRead /\ CFlagged
  BY BothOrders DEF IInv
<1>2. CASE UNCHANGED <<cinput, cpos, cflags, cseen>>
  <2>1. CEmitting' = CEmitting
    BY <1>2 DEF CEmitting, CEmits
  <2>2. CSeenRead'
    BY <1>1, <1>2 DEF CSeenRead
  <2> QED
    BY <1>1, <1>2, <2>1, <2>2, CFlaggedNone
<1>3. CASE ReadCflag
  <2> DEFINE k == cinput[cpos + 1]
  <2>1. /\ ReadsCflag("cflag") /\ cpos' = cpos + 1 /\ UNCHANGED cinput
        /\ cflags' = IF CflagIsNew(k.text) THEN Append(cflags, k.text) ELSE cflags
        /\ cseen' = cseen \cup {k.text}
    BY <1>3 DEF ReadCflag, inputVars
  <2>2. 1 .. cpos + 1 = (1 .. cpos) \cup {cpos + 1} /\ k.type = "cflag"
    BY <1>1, <2>1, NextCflag
  <2>3. CSeenRead'
    BY <1>1, <2>1, <2>2 DEF CSeenRead
  <2>4. CASE CflagIsNew(k.text)
    BY <1>1, <2>1, <2>3, <2>4, CFlaggedOne
  <2>5. CASE ~CflagIsNew(k.text)
    <3>1. CEmitting' = CEmitting
      BY <1>1, <2>1, <2>5, CEmitting1, CEmitsIs
    <3> QED
      BY <1>1, <2>1, <2>3, <2>5, <3>1, CFlaggedNone
  <2> QED
    BY <2>4, <2>5
<1>4. CASE SkipCflag
  <2>1. /\ ReadsCflag("other") /\ cpos' = cpos + 1 /\ UNCHANGED <<cinput, cflags, cseen>>
    BY <1>4 DEF SkipCflag, inputVars
  <2>2. 1 .. cpos + 1 = (1 .. cpos) \cup {cpos + 1} /\ cinput[cpos + 1].type = "other"
    BY <1>1, <2>1, NextCflag
  <2>3. CSeenRead'
    BY <1>1, <2>1, <2>2 DEF CSeenRead
  <2>4. CEmitting' = CEmitting
    BY <1>1, <2>1, <2>2, CEmitting1 DEF CEmits
  <2> QED
    BY <1>1, <2>1, <2>3, <2>4, CFlaggedNone
<1>5. CASE UNCHANGED vars
  BY <1>2, <1>5 DEF vars, inputVars, cflagVars
<1>6. AddsOther \/ AddsNone \/ (\E n \in Libs, k \in LinkKind : AddsLib(n, k)) \/ (\E n \in Libs : Repeats(n))
          => UNCHANGED <<cinput, cpos, cflags, cseen>>
  BY DEF AddsOther, AddsNone, AddsLib, Repeats, Unread
<1> QED
  BY <1>1, <1>2, <1>3, <1>4, <1>5, <1>6, Steps

-------------------------------------------------------------------------------
LEMMA InitInv == Init => IInv
<1> SUFFICES ASSUME Init PROVE IInv
  OBVIOUS
<1>1. <<input, cinput>> \in Inputs
  <2>1. PICK outputs \in Inputs : input = outputs[1] /\ cinput = outputs[2]
    BY DEF Init
  <2>2. outputs \in Seq(Tokens) \X Seq(CflagToken)
    BY Names
  <2>3. outputs = <<input, cinput>>
    BY <2>1, <2>2
  <2> QED
    BY <2>3
<1>2. input \in Seq(Tokens) /\ cinput \in Seq(CflagToken)
  BY <1>1, Names
<1>3. TypeOK
  <2>1. 0 \in 0 .. Len(input) /\ 0 \in 0 .. Len(cinput)
    BY <1>2
  <2>2. flags \in Seq(LinkerFlag) /\ cflags \in Seq(CTokens)
    BY DEF Init
  <2>3. indices \in [Libs -> 1 .. Len(flags) \cup {None}]
    BY DEF Init
  <2>4. seen \subseteq Libs /\ cseen \subseteq CTokens /\ region \in BOOLEAN
    BY DEF Init
  <2> QED
    BY <1>1, <2>1, <2>2, <2>3, <2>4 DEF Init, TypeOK
<1>4. Read = {} /\ (pos + 1) - 1 = 0 /\ 1 .. 0 = {}
  BY DEF Read, Init
<1>5. SeenRead
  BY <1>4 DEF Init, SeenRead, Bracketed
<1>6. Indexed
  BY DEF Init, Indexed, IsLibrary
<1>7. CSeenRead
  BY DEF Init, CSeenRead
<1>8. KindIsGiven
  BY DEF Init, KindIsGiven
<1>9. OrderKept
  <2>1. Emitting = {} /\ CEmitting = {}
    BY <1>4 DEF Init, Emitting, CEmitting
  <2>2. Cardinality({}) = 0
    BY FS_EmptySet
  <2>3. Len(flags) = 0 /\ Len(cflags) = 0
    BY DEF Init
  <2>4. Flagged /\ CFlagged
    BY <2>1, <2>2, <2>3 DEF Flagged, CFlagged
  <2> QED
    BY <2>4, BothOrders
<1> QED
  BY <1>3, <1>5, <1>6, <1>7, <1>8, <1>9 DEF IInv

LEMMA InvHolds == Spec => []IInv
<1>1. IInv /\ [Next]_vars => IInv'
  BY NextType, NextSeen, NextIndexed, NextKind, NextFlagged, NextCFlagged, BothOrders DEF IInv
<1> QED
  BY InitInv, <1>1, PTL DEF Spec

(* Both loops of pkgconf/src/lib.rs keep their types: an index they store  *)
(* is a place in the flags.                                                *)
THEOREM TypeCorrect == Spec => []TypeOK
<1>1. IInv => TypeOK
  BY DEF IInv
<1> QED
  BY <1>1, InvHolds, PTL

(* handle_library and its callers (pkgconf/src/lib.rs) give each library,  *)
(* but for one that -pthread brought in, the kind that lib.rs:518-524 and  *)
(* 327-331 promise, whatever the order in which its names and the brackets *)
(* come: after every token read.                                           *)
THEOREM KindIsPromisedHolds == Spec => []KindIsPromised
<1>1. IInv => KindIsPromised
  BY DEF IInv, KindIsGiven, Given, KindIsPromised
<1> QED
  BY <1>1, InvHolds, PTL

(* parse and parse_cflags (pkgconf/src/lib.rs) keep the order of the       *)
(* output: one flag for each directory, for each argument passed on and    *)
(* for the first mention of each library, at the rank of its token.        *)
THEOREM OrderKeptHolds == Spec => []OrderKept
<1>1. IInv => OrderKept
  BY DEF IInv
<1> QED
  BY <1>1, InvHolds, PTL
===============================================================================
