------------------------------- MODULE Names -------------------------------
(***************************************************************************)
(* Declarations and names in parse.c: scopes, the tables of a scope, the   *)
(* symbols of the program, and the name prefixes of this dialect           *)
(* (_Nameprefix, _Apply, _Capture, aliases, and access with ::).           *)
(*                                                                         *)
(* A spelling is a sequence of atoms, so that putting a prefix in front is *)
(* concatenation.  A step is one declaration, or the opening or closing of *)
(* a scope; a declaration the compiler rejects is not a step.              *)
(***************************************************************************)
EXTENDS Integers, Sequences, SequencesExt, FiniteSets

CONSTANTS Idents,        \* spellings of identifiers
          NpDecls,       \* <<path, text>> of _Nameprefix declarations
          Paths,         \* paths that open scopes and qualify names
          CaptureLists,  \* what a _Capture scope lists
          AliasDecls,    \* <<name, path>> of aliases
          Alpha,         \* atoms that begin with a letter
          MaxNps, MaxOpen, MaxDecls, MaxDepth,
          KnownFaults    \* forms left out of the properties (see met)

VARIABLES nps,      \* every Nameprefix; the first is _Global; and the
                    \* path it was written with
          outer,    \* outer_nps
          npScopes, \* np_scope_stack, its top last; the first is global_np_scope
          scopes,   \* the file scope first, the current scope last
          symbols,  \* the objects of the program by name
          made,     \* kinds of the entities declared
          done,     \* entities defined (functions) or complete (tags)
          seen,     \* what each block has declared, by the name written
          met       \* known faults the program has met
vars == <<nps, outer, npScopes, scopes, symbols, made, done, seen, met>>
npVars == <<nps, outer, npScopes>>
declVars == <<symbols, made, done>>

Atoms == UNION {Range(s) : s \in Idents \cup {d[2] : d \in NpDecls}}
PathsUsed == Paths \cup {d[1] : d \in NpDecls} \cup {a[2] : a \in AliasDecls} \cup UNION {Range(l) : l \in CaptureLists}
ASSUME NamesAssumption ==
    /\ \A s \in Idents \cup {d[2] : d \in NpDecls} : s \in Seq(Atoms)
    /\ \A p \in PathsUsed : p \in Seq(Range(p)) /\ p # <<>>
    /\ \A l \in CaptureLists : l \in Seq(Range(l))

None == 0
Dangling == -1    \* a pointer nobody set
_Global == "_Global"
EmptyMap == [x \in {} |-> None]
EmptyScope == [vars |-> EmptyMap, tags |-> EmptyMap, aliases |-> EmptyMap]
Put(f, k, v) == [x \in DOMAIN f \cup {k} |-> IF x = k THEN v ELSE f[x]]
Get(f, k) == IF k \in DOMAIN f THEN f[k] ELSE None

InFile == Len(scopes) = 1
Table(d, is_tag) == IF is_tag THEN scopes[d].tags ELSE scopes[d].vars
Applied == LET top == Last(npScopes) IN IF top.is_capture THEN None ELSE top.nps[1]
Unit == Applied \notin {None, 1}     \* inside _Apply

--------------------------------------------------------------------------
(* Looking names up. *)

FirstWith(s, Test(_)) ==
    LET i == SelectInSeq(s, Test) IN IF i = 0 THEN None ELSE s[i]
np_contains(np, n, is_tag) ==
    LET i == SelectInSeq(np.entries, LAMBDA e : e.name = n /\ e.is_tag = is_tag)
    IN  IF i = 0 THEN None ELSE np.entries[i].entity
get_np(parent, n) ==
    FirstWith(IF parent \in {None, 1} THEN outer ELSE nps[parent].nested,
              LAMBDA np : nps[np].name = n)
\* What get_np finds for each name of a path, inside what it found before.
Walk(from, path) ==
    LET found[k \in 0..Len(path)] == IF k = 0 THEN from ELSE get_np(found[k - 1], path[k])
    IN  found
\* get_np_by_name; None stands for its error
get_np_by_name(from, path) ==
    LET found == Walk(from, path)
    IN  IF \E k \in 1..Len(path) : found[k] = None THEN None ELSE found[Len(path)]

\* A prefix and those around it, innermost first.
Parents(np) ==
    LET up[p \in 0..Len(nps)] == IF p = None THEN <<>> ELSE <<p>> \o up[nps[p].parent]
    IN  up[np]

\* An access finds a prefix and, when one is wanted, an entry of it.
Failed == [np |-> Dangling, entity |-> None]     \* error_tok
Nothing == [np |-> None, entity |-> None]        \* NULL
Leaf(np, want) ==
    IF want = <<>> THEN [np |-> np, entity |-> None]
    ELSE LET e == np_contains(nps[np], want[1], want[2])
         IN  IF e = None THEN Nothing ELSE [np |-> np, entity |-> e]

\* Where an access that starts in np is looked for, in that order.
Searched(np) ==
    LET around == Parents(np)
    IN  [i \in 1..(Len(around) + 1) |-> IF i <= Len(around) THEN nps[around[i]].nested ELSE outer]
Foremost(S) == CHOOSE p \in S : \A q \in S : p[1] < q[1] \/ (p[1] = q[1] /\ p[2] <= q[2])
\* found[<<np, k>>]: the last k names of the access, from np.
get_np_from_access_starting_from(from, access, want) ==
    LET found[s \in (0..Len(nps)) \X (1..Len(access))] ==
            LET lists == Searched(s[1])
                Np(p) == lists[p[1]][p[2]]
                named == {p \in UNION {{i} \X DOMAIN lists[i] : i \in DOMAIN lists} :
                              nps[Np(p)].name = access[Len(access) - s[2] + 1]}
                deeper == {p \in named : found[<<Np(p), s[2] - 1>>] # Nothing}
            IN  IF named = {} THEN Failed
                ELSE IF s[2] = 1 THEN Leaf(Np(Foremost(named)), want)
                ELSE IF deeper = {} THEN Failed ELSE found[<<Np(Foremost(deeper)), s[2] - 1>>]
    IN  found[<<from, Len(access)>>]

AliasDepth(n) ==
    LET at == {d \in DOMAIN scopes : n \in DOMAIN scopes[d].aliases}
    IN  IF at = {} THEN 0 ELSE CHOOSE d \in at : \A e \in at : e <= d
\* Mutant: an access starts outside of every prefix.
get_np_from_access_Outside(access, want) ==
    LET d == AliasDepth(access[1])
        alias == IF d = 0 THEN Nothing
                 ELSE get_np_from_access_starting_from(
                          None, <<nps[scopes[d].aliases[access[1]]].name>> \o Tail(access), want)
    IN  IF alias # Nothing THEN alias
        ELSE get_np_from_access_starting_from(None, access, want)
get_np_from_access(access, want) ==
    LET d == AliasDepth(access[1])
        np == scopes[d].aliases[access[1]]
        alias == IF d = 0 THEN Nothing
                 ELSE IF Len(access) = 1 THEN Leaf(np, want)
                 ELSE get_np_from_access_starting_from(np, Tail(access), want)
    IN  IF alias # Nothing THEN alias
        ELSE get_np_from_access_starting_from(Applied, access, want)

\* Mutant: the open prefix is asked before the blocks.
find_ident_PrefixFirst(id, is_tag) ==
    LET at == {d \in DOMAIN scopes : id \in DOMAIN Table(d, is_tag)}
        d == CHOOSE d \in at : \A e \in at : e <= d
        chain == IF Unit THEN Parents(Applied) ELSE <<>>
        np == FirstWith(chain, LAMBDA p : np_contains(nps[p], id, is_tag) # None)
    IN  IF np # None THEN np_contains(nps[np], id, is_tag)
        ELSE IF at = {} THEN None ELSE Table(d, is_tag)[id]
\* An unqualified name; None when it is not declared.
find_ident(id, is_tag) ==
    LET at == {d \in DOMAIN scopes : id \in DOMAIN Table(d, is_tag)}
        d == CHOOSE d \in at : \A e \in at : e <= d
        ret == IF at = {} THEN None ELSE Table(d, is_tag)[id]
        chain == IF Unit THEN Parents(Applied) ELSE <<>>
        np == FirstWith(chain, LAMBDA p : np_contains(nps[p], id, is_tag) # None)
    IN  IF at # {} /\ d > 1 THEN ret
        ELSE IF np # None THEN np_contains(nps[np], id, is_tag) ELSE ret
\* A name behind an access.
find_qualified(access, id, is_tag) == get_np_from_access(access, <<id, is_tag>>).entity

--------------------------------------------------------------------------
(* Entering a declared name in the prefixes it belongs to. *)

get_prefixed_ident(id) == IF Applied = None THEN id ELSE nps[Applied].prefix \o id

Push(list, np, n, e, is_tag) ==
    [list EXCEPT ![np].entries = Append(@, [name |-> n, is_tag |-> is_tag, entity |-> e])]

StartsWith(id, p) == Len(id) > Len(p) /\ SubSeq(id, 1, Len(p)) = p /\ id[Len(p) + 1] \in Alpha
Unprefixed(id, p) == SubSeq(id, Len(p) + 1, Len(id))

\* Mutant: a captured name keeps its prefix.
Captures_Written(list, cap, id, e, is_tag) ==
    IF ~cap.is_capture THEN list
    ELSE LET np == FirstWith(cap.nps, LAMBDA p : StartsWith(id, list[p].prefix))
         IN  IF np = None THEN list ELSE Push(list, np, id, e, is_tag)
Captures(list, cap, id, e, is_tag) ==
    IF ~cap.is_capture THEN list
    ELSE LET Takes(np) ==
                 /\ StartsWith(id, list[np].prefix)
                 /\ np_contains(list[np], Unprefixed(id, list[np].prefix), is_tag) = None
             np == FirstWith(cap.nps, Takes)
         IN  IF np = None THEN list
             ELSE Push(list, np, Unprefixed(id, list[np].prefix), e, is_tag)
consider_ident_for_all_capture_prefix_scopes(list, id, e, is_tag) ==
    LET after[i \in 0..Len(npScopes)] ==
            IF i = 0 THEN list
            ELSE Captures(after[i - 1], npScopes[Len(npScopes) - i + 1], id, e, is_tag)
    IN  after[Len(npScopes)]

\* Mutant: a name is listed where it was captured or applied, not in _Global.
Listed_Nearest(id, e, is_tag) ==
    IF Applied = None
    THEN consider_ident_for_all_capture_prefix_scopes(nps, id, e, is_tag)
    ELSE Push(nps, Applied, id, e, is_tag)
\* What push_gvar_name, push_tag_scope, parse_typedef and enum_specifier do
\* at file scope.
Listed(id, e, is_tag) ==
    LET list == IF Applied = None
                THEN consider_ident_for_all_capture_prefix_scopes(nps, id, e, is_tag)
                ELSE Push(nps, Applied, id, e, is_tag)
    IN  IF Applied = 1 THEN list
        ELSE Push(list, 1, get_prefixed_ident(id), e, is_tag)

--------------------------------------------------------------------------
(* Name prefixes. *)

GlobalNp == [name |-> _Global, parent |-> None, prefix |-> <<>>,
             entries |-> <<>>, nested |-> <<>>, written |-> <<_Global>>]
Init ==
    /\ nps = <<GlobalNp>> /\ outer = <<1>>
    /\ npScopes = <<[is_capture |-> FALSE, nps |-> <<1>>]>>
    /\ scopes = <<EmptyScope>> /\ seen = <<EmptyMap>>
    /\ symbols = EmptyMap /\ made = <<>> /\ done = {} /\ met = {}

Going == met \cap KnownFaults = {}
\* parse_np takes a parent that does not exist for none, where the path has
\* one name more.
create_np(parent, n, prefix, path) ==
    LET new == Len(nps) + 1
        listed == IF parent = None THEN 1 ELSE parent
    IN  /\ nps' = Append([nps EXCEPT ![listed].nested = Append(@, new)],
                         [name |-> n, parent |-> parent, prefix |-> prefix,
                          entries |-> <<>>, nested |-> <<>>, written |-> path])
        /\ outer' = IF parent = None THEN Append(outer, new) ELSE outer
parse_np(path, prefix) ==
    LET n == Last(path)
        found == Walk(None, path)
        parent == found[Len(path) - 1]
        np == found[Len(path)]
    IN  /\ InFile /\ ~Unit
        /\ \A k \in 2..(Len(path) - 1) : found[k] # None
        /\ Len(path) = 1 => n \notin DOMAIN scopes[1].aliases
        /\ \/ np = None /\ n # _Global /\ Len(nps) < MaxNps
              /\ create_np(parent, n, prefix, path)
           \/ np # None /\ nps[np].prefix = prefix /\ UNCHANGED <<nps, outer>>
        /\ met' = met \cup {f \in {"missing-parent"} : Len(path) > 1 /\ found[1] = None}
                      \cup {f \in {"global-child"} : parent = 1}
        /\ UNCHANGED <<npScopes, scopes, seen, declVars>>

parse_np_alias(n, path) ==
    LET np == get_np_from_access(path, <<>>).np
    IN  /\ InFile => ~Unit /\ \A p \in Range(outer) : nps[p].name # n
        /\ np > 0
        /\ n \notin DOMAIN Last(scopes).aliases
        /\ scopes' = [scopes EXCEPT ![Len(scopes)].aliases = Put(@, n, np)]
        /\ UNCHANGED <<npVars, seen, declVars, met>>

Open(is_capture, which) ==
    /\ InFile /\ Len(npScopes) < MaxOpen
    /\ npScopes' = Append(npScopes, [is_capture |-> is_capture, nps |-> which])
    /\ UNCHANGED <<nps, outer, scopes, seen, declVars, met>>
OpenApply(path) ==
    LET np == get_np_by_name(Applied, path)
    IN  path # <<_Global>> /\ np # None /\ Open(FALSE, <<np>>)
OpenCapture(paths) ==
    LET which == [i \in DOMAIN paths |-> get_np_by_name(None, paths[i])]
    IN  None \notin Range(which) /\ Open(TRUE, which)
CloseNp ==
    /\ InFile /\ Len(npScopes) > 1
    /\ npScopes' = Front(npScopes)
    /\ UNCHANGED <<nps, outer, scopes, seen, declVars, met>>

--------------------------------------------------------------------------
(* Declarations. *)

New == Len(made) + 1
\* Entity e, written id, gets the name n in the current scope.
Bound(id, n, e, is_tag) ==
    LET d == Len(scopes) IN
    /\ scopes' = IF is_tag THEN [scopes EXCEPT ![d].tags = Put(@, n, e)]
                 ELSE [scopes EXCEPT ![d].vars = Put(@, n, e)]
    /\ seen' = [seen EXCEPT ![d] = IF d = 1 THEN @ ELSE Put(@, <<id, is_tag>>, e)]
Made(kind) == Len(made) < MaxDecls /\ made' = Append(made, kind)
InFileOnly(list) == nps' = (IF InFile THEN list ELSE nps) /\ UNCHANGED <<outer, npScopes>>

\* The object of that name, found or made; func_prototype and
\* global_declaration.
Symbol(n, kind) ==
    \/ n \in DOMAIN symbols /\ made[symbols[n]] = kind
       /\ Len(made) < MaxDecls /\ made' = Append(made, "again") /\ UNCHANGED symbols
    \/ n \notin DOMAIN symbols /\ Made(kind) /\ symbols' = Put(symbols, n, New)
ObjectOf(n) == IF n \in DOMAIN symbols THEN symbols[n] ELSE New

\* push_gvar_name: new_var is set only when push_var_scope makes the entry,
\* and is listed either way.
NameInScope(id) == IF InFile THEN get_prefixed_ident(id) ELSE id
Accepts(n, obj) == Get(Last(scopes).vars, n) \in {None, obj}
GvarListed(id, n, obj) ==
    Listed(id, IF Get(Last(scopes).vars, n) = None THEN obj ELSE Dangling, FALSE)
GvarMet(list) ==
    {f \in {"unset-entry"} :
        InFile /\ \E np \in Range(list) : \E e \in Range(np.entries) :
            np_contains(np, e.name, e.is_tag) = Dangling}
push_gvar_name(id, obj) ==
    LET n == NameInScope(id)
        list == GvarListed(id, n, obj)
    IN  /\ Accepts(n, obj)
        /\ Bound(id, n, obj, FALSE)
        /\ InFileOnly(list)
        /\ met' = met \cup GvarMet(list)

DeclareVar(id, is_extern) ==
    LET n == NameInScope(id)
    IN  /\ InFile \/ is_extern
        /\ Symbol(n, "var")
        /\ push_gvar_name(id, ObjectOf(n))
        /\ UNCHANGED done
func_prototype(id) ==
    LET n == get_prefixed_ident(id)
    IN  Symbol(n, "func") /\ push_gvar_name(id, ObjectOf(n))
DeclareFunc(id) == func_prototype(id) /\ UNCHANGED done

enter_scope == scopes' = Append(scopes, EmptyScope) /\ seen' = Append(seen, EmptyMap)
leave_scope == scopes' = Front(scopes) /\ seen' = Front(seen)

\* global_declaration up to the body of a function, then func_definition
\* opens its scope.
func_definition(id) ==
    LET n == get_prefixed_ident(id)
        fn == ObjectOf(n)
        list == GvarListed(id, n, fn)
    IN  /\ InFile /\ MaxDepth > 1
        /\ fn \notin done /\ done' = done \cup {fn}
        /\ Symbol(n, "func") /\ Accepts(n, fn)
        /\ scopes' = <<[scopes[1] EXCEPT !.vars = Put(@, n, fn)], EmptyScope>>
        /\ seen' = Append(seen, EmptyMap)
        /\ InFileOnly(list)
        /\ met' = met \cup GvarMet(list)
EnterBlock ==
    /\ Len(scopes) \in 2..(MaxDepth - 1) /\ enter_scope
    /\ UNCHANGED <<npVars, declVars, met>>
LeaveBlock == ~InFile /\ leave_scope /\ UNCHANGED <<npVars, declVars, met>>

\* push_var_name of a local variable
push_var_name(id) ==
    /\ ~InFile /\ id \notin DOMAIN Last(scopes).vars
    /\ Made("local") /\ Bound(id, id, New, FALSE)
    /\ UNCHANGED <<npVars, symbols, done, met>>

BlockPrefix == {f \in {"block-prefix"} : ~InFile /\ Unit}
parse_typedef(id) ==
    LET n == get_prefixed_ident(id)
        old == Get(Last(scopes).vars, n)
        e == IF old = None THEN New ELSE old
    IN  /\ old # None => made[old] = "typedef"
        /\ Made(IF old = None THEN "typedef" ELSE "again")
        /\ Bound(id, n, e, FALSE) /\ InFileOnly(Listed(id, e, FALSE))
        /\ met' = met \cup BlockPrefix
        /\ UNCHANGED <<symbols, done>>
\* One constant of enum_specifier.
enum_specifier(id) ==
    LET n == get_prefixed_ident(id)
    IN  /\ n \notin DOMAIN Last(scopes).vars
        /\ Made("enum") /\ Bound(id, n, New, FALSE)
        /\ InFileOnly(Listed(id, New, FALSE))
        /\ met' = met \cup BlockPrefix
        /\ UNCHANGED <<symbols, done>>

find_tag_in_scope(id) == Get(Last(scopes).tags, id)
push_tag_scope(id, e) ==
    /\ Bound(id, NameInScope(id), e, TRUE)
    /\ InFileOnly(Listed(id, e, TRUE))
\* A tag with a body ("{"), alone (";"), or in front of a declarator.
struct_tag(id, next) ==
    LET found == IF next \in {"{", ";"} THEN find_tag_in_scope(id) ELSE find_ident(id, TRUE)
        tag == IF found = None THEN New ELSE found
        own == Get(Last(scopes).tags, NameInScope(id))
    IN  /\ next = "{" => tag \notin done
        /\ Made(IF found = None THEN "tag" ELSE "again")
        /\ done' = IF next = "{" THEN done \cup {tag} ELSE done
        /\ IF found = None THEN push_tag_scope(id, New)
           ELSE UNCHANGED <<npVars, scopes, seen>>
        /\ met' = met \cup {f \in {"tag-unprefixed"} :
                        found # own /\ (next \in {"{", ";"} \/ found = None)}
        /\ UNCHANGED symbols

Next ==
    /\ Going
    /\ \/ \E d \in NpDecls : parse_np(d[1], d[2])
       \/ \E a \in AliasDecls : parse_np_alias(a[1], a[2])
       \/ \E path \in Paths : OpenApply(path)
       \/ \E paths \in CaptureLists : OpenCapture(paths)
       \/ CloseNp
       \/ EnterBlock
       \/ LeaveBlock
       \/ \E id \in Idents :
            \/ \E is_extern \in BOOLEAN : DeclareVar(id, is_extern)
            \/ DeclareFunc(id)
            \/ func_definition(id)
            \/ push_var_name(id)
            \/ parse_typedef(id)
            \/ enum_specifier(id)
            \/ \E next \in {"{", ";", "*"} : struct_tag(id, next)

Spec == Init /\ [][Next]_vars

--------------------------------------------------------------------------
(* Properties; they say nothing of a program that met a known fault. *)

EntryNames(np) == {<<nps[np].entries[i].name, nps[np].entries[i].is_tag>> :
                       i \in DOMAIN nps[np].entries}

\* A::x and A_x are one thing: every entry of a name prefix, as a lookup finds
\* it (np_contains, the first of its name), is what the file scope knows under
\* the name with the prefix in front; and _Global names everything the file
\* scope has declared, whatever prefix scopes were open then (push_gvar_name,
\* push_tag_scope, parse_typedef).
EntriesAreDeclared ==
    Going =>
      /\ \A np \in DOMAIN nps : \A k \in EntryNames(np) :
            np_contains(nps[np], k[1], k[2]) = Get(Table(1, k[2]), nps[np].prefix \o k[1])
      /\ \A is_tag \in BOOLEAN : \A n \in DOMAIN Table(1, is_tag) :
            np_contains(nps[1], n, is_tag) = Table(1, is_tag)[n]

\* A plain name means its innermost declaration in a block, as written;
\* without one and inside _Apply, the first member of the open prefix and its
\* parents; else what the file scope has (find_ident).
LookupIsScoped ==
    Going => \A id \in Idents, is_tag \in BOOLEAN :
        LET at == {d \in 2..Len(scopes) : <<id, is_tag>> \in DOMAIN seen[d]}
            d == CHOOSE d \in at : \A e \in at : e <= d
            chain == IF Unit THEN Parents(Applied) ELSE <<>>
            np == FirstWith(chain, LAMBDA p : <<id, is_tag>> \in EntryNames(p))
        IN  find_ident(id, is_tag) =
                IF at # {} THEN seen[d][<<id, is_tag>>]
                ELSE Get(Table(1, is_tag), IF np # None THEN nps[np].prefix \o id ELSE id)

\* A prefix or alias named in an access is looked for from the innermost place
\* out, and what follows it inside what was found: when that leads to an entry,
\* the compiler takes this entry and no other (get_np_from_access).  The path a
\* prefix was declared with leads to it, so that it can be opened, and declared
\* again (parse_np, create_np, get_np_by_name).
QualifiedIsFound ==
  Going =>
    /\ \A np \in DOMAIN nps : get_np_by_name(None, nps[np].written) = np
    /\ \A path \in Paths, id \in Idents, is_tag \in BOOLEAN :
        LET near == IF AliasDepth(path[1]) > 0
                    THEN scopes[AliasDepth(path[1])].aliases[path[1]]
                    ELSE LET inside == {i \in DOMAIN Parents(Applied) :
                                 \E c \in Range(nps[Parents(Applied)[i]].nested) : nps[c].name = path[1]}
                             base == Parents(Applied)[CHOOSE i \in inside : \A j \in inside : i <= j]
                         IN  IF inside = {} THEN get_np(None, path[1])
                             ELSE FirstWith(nps[base].nested, LAMBDA c : nps[c].name = path[1])
            inner[k \in 1..Len(path)] ==
                IF k = 1 THEN near ELSE IF inner[k - 1] = None THEN None
                ELSE FirstWith(nps[inner[k - 1]].nested, LAMBDA c : nps[c].name = path[k])
            np == inner[Len(path)]
        IN  np # None /\ <<id, is_tag>> \in EntryNames(np)
            => find_qualified(path, id, is_tag) = Get(Table(1, is_tag), nps[np].prefix \o id)

=============================================================================
