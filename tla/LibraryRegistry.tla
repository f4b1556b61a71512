--------------------------- MODULE LibraryRegistry ---------------------------
(***************************************************************************)
(* Libraries and the layouts that use their cells: db::LibraryManager,     *)
(* db::Library, db::LibraryProxy and db::ColdProxy (db/db), with the parts *)
(* of db::Layout and of its undo operation NewRemoveCellOp that handle     *)
(* proxies.                                                                *)
(*                                                                         *)
(* A cell of the using layout is a proxy for a library cell, named by the  *)
(* id of the library and the index of the cell in it.  If the library goes *)
(* away, a cold proxy with the two names takes its place, to be restored   *)
(* when a library with these names appears.  Every public call runs to its *)
(* end on one thread: it is one step.                                      *)
(***************************************************************************)
EXTENDS Integers, Sequences, SequencesExt, FiniteSets, FiniteSetsExt

CONSTANTS
    Libraries,    \* library objects, named by their address
    Names, Cells, \* names of libraries and of library cells
    Technologies,
    Contents,     \* the cells of a library, in the order of their indices
    CellIndexes,  \* cell indices of the using layout
    MaxMisnamed,  \* bound on the libraries that are registered again by another name
    MisnamedWithHistory, \* bound: whether the layout may have a history meanwhile
    MaxRetired,   \* bound on a retired count; 0: not counted, only is_retired reads it
    None          \* no library, name, technology or cell

ASSUME ConstantsAssumption ==
    /\ IsFiniteSet(Cells) /\ IsFiniteSet(CellIndexes)
    /\ Contents \subseteq Seq(Cells)
    /\ \A c \in Contents : IsInjective(c)
    /\ MaxRetired \in Nat /\ MaxMisnamed \in Nat
    /\ MisnamedWithHistory \in BOOLEAN
    /\ None \notin Libraries \cup Names \cup Cells \cup Technologies \cup CellIndexes

NoId == 0                             \* ids are counted from 1
Indexes == 1..Cardinality(Cells)      \* library cell indices
NoCounts == [i \in Indexes |-> 0]

Empty == [kind |-> "empty"]
Live(id, i) == [kind |-> "live", id |-> id, index |-> i]       \* LibraryProxy
Cold(n, c) == [kind |-> "cold", library |-> n, cell |-> c]     \* ColdProxy
IsLive(p) == p.kind = "live"
IsCold(p) == p.kind = "cold"

\* A library with its counts.  As long as it is not registered, it may be changed at
\* will: what it has become is said when it is registered.
Described(o, n, techs, cells) == [o EXCEPT !.name = n, !.technologies = techs, !.cells = cells]
Unknown(o) == Described(o, None, {}, <<>>)
NewLibrary == [name |-> None, technologies |-> {}, cells |-> <<>>,
               refcount |-> NoCounts, retired |-> NoCounts, referrers |-> 0]

NoOp == [at |-> None, remove |-> FALSE, done |-> FALSE, cell |-> Empty]

VARIABLES
    reg,        \* libs: m_libs; byName: m_lib_by_name, the ids in order; object: the
                \* libraries; proxy: the proxies of the using layout
    technology, \* m_tech_name of the layout
    op,         \* the NewRemoveCellOp of the history of the layout
    meant,      \* history: the library cell each cell was made for
    outlived,   \* history: an operation kept a proxy longer than its library cell
    overlooked, \* history: cold proxies that no call was to restore yet
    misnamed    \* history: the ids of libraries that were given another name than the
                \* one they are registered under, as long as they are in the name table

vars == <<reg, technology, op, meant, outlived, overlooked, misnamed>>

Init ==
    /\ reg = [libs |-> <<>>, byName |-> [n \in Names |-> <<>>],
              object |-> [l \in Libraries |-> NewLibrary], proxy |-> [s \in CellIndexes |-> Empty]]
    /\ technology = None /\ op = NoOp
    /\ meant = [s \in CellIndexes |-> None]
    /\ outlived = FALSE /\ overlooked = {} /\ misnamed = {}

-----------------------------------------------------------------------------
(* Lookup.  The operators here take the registry g in the course of a call. *)

Lib(g, id) == IF id \in DOMAIN g.libs THEN g.libs[id] ELSE None
IdOf(g, l) == IF \E i \in DOMAIN g.libs : g.libs[i] = l
              THEN CHOOSE i \in DOMAIN g.libs : g.libs[i] = l ELSE NoId
CellsOf(g, id) == IF Lib(g, id) = None THEN <<>> ELSE g.object[Lib(g, id)].cells
CellOf(g, p) == IF p.index \in DOMAIN CellsOf(g, p.id) THEN CellsOf(g, p.id)[p.index] ELSE None
HasCell(g, id, c) == c \in ToSet(CellsOf(g, id))
IndexOf(g, id, c) == CHOOSE i \in DOMAIN CellsOf(g, id) : CellsOf(g, id)[i] = c

\* An entry of the name table leads to no library: the code would follow a null pointer.
Dangling(g) == \E n \in Names : \E id \in ToSet(g.byName[n]) : Lib(g, id) = None

\* lib_by_name: a library for all of these technologies, then one for no certain technology.
Suits(g, id, techs) ==
    /\ Lib(g, id) # None
    /\ LET t == g.object[Lib(g, id)].technologies IN t # {} /\ techs \subseteq t
IsGeneric(g, id) == Lib(g, id) # None /\ g.object[Lib(g, id)].technologies = {}
LibByName(g, n, techs) ==
    LET named == g.byName[n]
        valid == {i \in DOMAIN named : techs # {} /\ Suits(g, named[i], techs)}
        generic == {i \in DOMAIN named : IsGeneric(g, named[i])}
    IN  IF valid # {} THEN named[Min(valid)]
        ELSE IF generic # {} THEN named[Min(generic)] ELSE NoId

TechsOf(t) == {t} \ {None}

-----------------------------------------------------------------------------
(* Proxies.  A library counts the proxies of each cell, those that the     *)
(* history keeps (retired) and the proxies of each layout.                 *)

Counted(g, p) ==      \* Library::register_proxy
    LET l == Lib(g, p.id) IN
    IF l = None THEN g
    ELSE [g EXCEPT !.object[l].refcount[p.index] = @ + 1, !.object[l].referrers = @ + 1]

Less(n) == IF n = 0 THEN 0 ELSE n - 1
Uncounted_Not(g, p) == g      \* a fault: ~LibraryProxy does not give the reference back
Uncounted(g, p) ==    \* Library::unregister_proxy
    LET l == Lib(g, p.id) IN
    IF l = None THEN g
    ELSE [g EXCEPT !.object[l].refcount[p.index] = Less(@), !.object[l].referrers = Less(@)]

Retired(g, p) ==      \* LibraryProxy::unregister
    IF MaxRetired = 0 \/ ~IsLive(p) \/ Lib(g, p.id) = None THEN g
    ELSE [g EXCEPT !.object[Lib(g, p.id)].retired[p.index] = @ + 1]
Unretired(g, p) ==    \* LibraryProxy::reregister
    IF MaxRetired = 0 \/ ~IsLive(p) \/ Lib(g, p.id) = None THEN g
    ELSE [g EXCEPT !.object[Lib(g, p.id)].retired[p.index] = Less(@)]

Destroyed(g, p) == IF IsLive(p) THEN Uncounted(g, p) ELSE g

Placed(g, s, p) == [g EXCEPT !.proxy[s] = p]

\* replace_cell outside of a transaction: the old cell is taken out and deleted.
Replaced(g, s, p) == Placed(Destroyed(Retired(g, g.proxy[s]), g.proxy[s]), s, p)

\* get_context_info: the names are lost if the library cell is not there any more.
Context(g, p) ==
    IF CellOf(g, p) = None THEN Cold(None, None)
    ELSE Cold(g.object[Lib(g, p.id)].name, CellOf(g, p))
Cooled(g, s) == Replaced(g, s, Context(g, g.proxy[s]))            \* create_cold_proxy_as

Warmed(g, s, p) == Replaced(Counted(g, p), s, p)                  \* get_lib_proxy_as

Remapped_OldKept(g, s, p) ==          \* a fault: the old library still counts the proxy
    IF g.proxy[s] = p THEN g ELSE Placed(Counted(g, p), s, p)
Remapped(g, s, p) ==                                              \* LibraryProxy::remap
    IF g.proxy[s] = p THEN g ELSE Placed(Counted(Uncounted(g, g.proxy[s]), p), s, p)

\* The proxy takes the cell of the same name in the other library, or gets cold.
Resolved_ByIndex(g, s, other) ==      \* a fault: the cell of the same index
    IF g.proxy[s].index \in DOMAIN CellsOf(g, other)
    THEN Remapped(g, s, Live(other, g.proxy[s].index)) ELSE Cooled(g, s)
Resolved(g, s, other) ==
    LET c == CellOf(g, g.proxy[s]) IN
    IF HasCell(g, other, c) THEN Remapped(g, s, Live(other, IndexOf(g, other, c)))
    ELSE Cooled(g, s)

\* One after the other, in the library that `to` has for each.
ResolvedAll(g, to) == FoldSet(LAMBDA s, h : Resolved(h, s, to[s]), g, DOMAIN to)

\* Library::remap_to of the library with this id, in the layouts that refer to it.
RemappedTo(g, id, other) ==
    LET l == Lib(g, id)
        refers == {s \in CellIndexes :
            /\ IsLive(g.proxy[s]) /\ g.proxy[s].id = id
            /\ CellOf(g, g.proxy[s]) # None}
    IN  IF l = None THEN g
        ELSE IF g.object[l].referrers = 0 THEN g
        ELSE ResolvedAll(g, [s \in refers |-> other])

WarmedAll(g, to) == FoldSet(LAMBDA s, h : Warmed(h, s, to[s]), g, DOMAIN to)

\* restore_proxies of a layout with this technology.
Restorable(g, t, s) ==
    /\ IsCold(g.proxy[s]) /\ g.proxy[s].library # None
    /\ HasCell(g, LibByName(g, g.proxy[s].library, TechsOf(t)), g.proxy[s].cell)
Restored(g, t) ==
    LET id(s) == LibByName(g, g.proxy[s].library, TechsOf(t))
        cold == {s \in CellIndexes : Restorable(g, t, s)}
    IN  WarmedAll(g, [s \in cold |-> Live(id(s), IndexOf(g, id(s), g.proxy[s].cell))])

-----------------------------------------------------------------------------
(* The registry                                                            *)

Freed(g, id) == [g EXCEPT !.libs[id] = None]
Buried(g, l) == [g EXCEPT !.object[l] = NewLibrary]

\* unregister_lib erases all the libraries of that name from the name table.
Unregistered(g, l) ==
    LET id == IdOf(g, l) IN
    IF id = NoId THEN g
    ELSE [Freed(RemappedTo(g, id, NoId), id) EXCEPT !.byName[g.object[l].name] = <<>>]

Deleted(g, l) == Buried(Unregistered(g, l), l)                    \* delete_lib

FreeId(g) == LET free == {i \in DOMAIN g.libs : g.libs[i] = None}
             IN  IF free = {} THEN Len(g.libs) + 1 ELSE Min(free)

\* register_lib: the library takes the place of one with the same name and technologies.
Same(g, l, id) ==
    Lib(g, id) # None /\ g.object[Lib(g, id)].technologies = g.object[l].technologies
Inserted(g, l) ==
    LET id == FreeId(g) IN [g EXCEPT !.libs = IF id > Len(@) THEN Append(@, l) ELSE [@ EXCEPT ![id] = l]]
Substituted(g, l) ==
    LET n == g.object[l].name
        new == IdOf(g, l)
        same == {i \in DOMAIN g.byName[n] : Same(g, l, g.byName[n][i])}
        old == g.byName[n][Min(same)]
    IN  IF same = {} THEN [g EXCEPT !.byName[n] = <<new>> \o @]
        ELSE LET h == RemappedTo([g EXCEPT !.byName[n] = <<new>> \o RemoveAt(@, Min(same))], old, new)
             IN  Buried(Freed(h, old), Lib(h, old))
Registered(g, l) == Substituted(Inserted(g, l), l)

\* The first entry of an id is erased, if there is one.
Without(ids, id) ==
    LET at == {k \in DOMAIN ids : ids[k] = id} IN IF at = {} THEN ids ELSE RemoveAt(ids, Min(at))

\* LibraryManager::rename: the entry of the library moves to the end of the other name.
Renamed_EntryKept(g, id, n) ==        \* a fault: the old entry stays
    LET l == Lib(g, id)
    IN  IF l = None THEN g
        ELSE RemappedTo([g EXCEPT !.byName[n] = Append(@, id), !.object[l].name = n], id, id)
Renamed(g, id, n) ==
    LET l == Lib(g, id)
        old == g.object[l].name
        without == [g.byName EXCEPT ![old] = Without(@, id)]
    IN  IF l = None THEN g
        ELSE RemappedTo([g EXCEPT !.byName = [without EXCEPT ![n] = Append(@, id)],
                                  !.object[l].name = n], id, id)

-----------------------------------------------------------------------------
(* Calls                                                                   *)

\* The operation keeps a proxy whose library or library cell is not what it was.
Outlives(g) ==
    /\ IsLive(op.cell)
    /\ Lib(g, op.cell.id) # Lib(reg, op.cell.id) \/ CellOf(g, op.cell) # meant[op.at]

\* Bound on the retired counts.  Not followed any further: a history that has outlived a
\* library cell, where undo may put back a proxy whose use is undefined and counts go
\* wrong, and a name table that leads to no library, where the next lookup is undefined
\* (nor is a call that would go on from such a table, see Enters and Settles).
Bounded(g) ==
    /\ ~outlived /\ ~Dangling(reg)
    /\ \A l \in Libraries, i \in Indexes : g.object[l].retired[i] <= MaxRetired

IsListed(g, id) == \E n \in Names : id \in ToSet(g.byName[n])

\* The end of a call to the registry.
Registry(g) ==
    /\ Bounded(g)
    /\ reg' = g
    /\ outlived' = (outlived \/ Outlives(g))
    /\ misnamed' = {id \in misnamed : IsListed(g, id)}
    /\ UNCHANGED <<op, meant>>

\* A library that is misnamed leaves proxies cold under its own name, and who comes
\* under the other name does not look for them.
Overlooks == IF misnamed = {} THEN overlooked ELSE overlooked \cup {s \in CellIndexes : IsCold(reg'.proxy[s])}

\* Cold proxies of that name, those that the history keeps included.
HasCold(g, n) ==
    \E p \in {g.proxy[s] : s \in CellIndexes} \cup {op.cell} : IsCold(p) /\ p.library = n

\* The end of register_lib: if there are any, the cold proxies of the layout are restored,
\* by lookups that must not meet an entry without a library.
Settles_Not(g, n) ==                  \* a fault: they stay cold
    Registry(g) /\ UNCHANGED <<overlooked, technology>>
Settles(g, n) ==
    /\ IF HasCold(g, n)
       THEN ~Dangling(g) /\ Registry(Restored(g, technology)) /\ overlooked' = {}
       ELSE Registry(g) /\ overlooked' = Overlooks
    /\ UNCHANGED technology
Enters(g, l) == ~Dangling(g) /\ Settles(Registered(g, l), g.object[l].name)

IsRegistered(l) == IdOf(reg, l) # NoId

\* A script or the library controller registers a library that is new or was unregistered.
Register(l, n, techs, cells) ==
    /\ ~IsRegistered(l)
    /\ Enters([reg EXCEPT !.object[l] = Described(@, n, techs, cells)], l)

\* A script registers a library that is registered.  It gets the name first, then
\* register_lib turns it away: in the name table it stays under the old one.
Reregister(l, n) ==
    /\ IsRegistered(l) /\ n # reg.object[l].name
    /\ Bounded(reg) /\ Cardinality(misnamed) < MaxMisnamed
    /\ op # NoOp => MisnamedWithHistory
    /\ reg' = [reg EXCEPT !.object[l].name = n]
    /\ misnamed' = misnamed \cup {IdOf(reg, l)}
    /\ UNCHANGED <<technology, op, meant, outlived, overlooked>>

Unregister(l) ==
    /\ IsRegistered(l)
    /\ Registry([Unregistered(reg, l) EXCEPT !.object[l] = Unknown(@)])
    /\ overlooked' = Overlooks
    /\ UNCHANGED technology

Delete(l) ==
    /\ reg.object[l] # NewLibrary
    /\ Registry(Deleted(reg, l))
    /\ overlooked' = Overlooks
    /\ UNCHANGED technology

\* Library::rename deletes the library found under that name, if any, also if the
\* library to rename is not registered.
Rename(l, n, techs) ==
    /\ IsRegistered(l) => n # reg.object[l].name /\ techs = reg.object[l].technologies
    /\ LET id == IdOf(reg, l)
           found == LibByName(reg, n, techs)
           g == IF found \in {NoId, id} THEN reg ELSE Deleted(reg, Lib(reg, found))
       IN  Registry(Renamed(g, id, n))
    /\ overlooked' = Overlooks \cup
           {s \in CellIndexes : /\ IsRegistered(l) /\ IsCold(reg'.proxy[s])
                                /\ reg'.proxy[s].library \in {n, reg.object[l].name}}
    /\ UNCHANGED technology

\* refresh: unregister, read again under a name that may be new, register.  A library
\* that cannot be read stays registered without a cell.
Refresh(l, n, cells) ==
    /\ IsRegistered(l)
    /\ Enters([Unregistered(reg, l) EXCEPT !.object[l].name = n, !.object[l].cells = cells], l)

RefreshFails(l) == Refresh(l, reg.object[l].name, <<>>)

\* Layout::set_technology_name.  Every library used is looked up by its name again.
NewIdFor(id, t) ==
    IF Lib(reg, id) = None THEN NoId
    ELSE LibByName(reg, reg.object[Lib(reg, id)].name, TechsOf(t))
SetTechnology(t) ==
    /\ t # technology
    /\ LET live == {s \in CellIndexes : IsLive(reg.proxy[s])}
           toMap == {s \in live : NewIdFor(reg.proxy[s].id, t) \notin {NoId, reg.proxy[s].id}}
           lost == {s \in live : NewIdFor(reg.proxy[s].id, t) = NoId}
           mapped == ResolvedAll(reg, [s \in toMap |-> NewIdFor(reg.proxy[s].id, t)])
       IN  Registry(Restored(ResolvedAll(mapped, [s \in lost |-> NoId]), t))
    /\ technology' = t /\ overlooked' = {}

-----------------------------------------------------------------------------
(* The layout and its history: one operation at a time.                    *)

\* Bounds: a done operation is forgotten first, and there may be none with misnamed libraries.
CanQueue == ~op.done /\ (misnamed # {} => MisnamedWithHistory)
Unkept(g) == Destroyed(g, op.cell)     \* ~NewRemoveCellOp of a dropped operation
MeantWithout == IF op # NoOp /\ reg.proxy[op.at] = Empty THEN [meant EXCEPT ![op.at] = None] ELSE meant

Layout(g) ==
    /\ Bounded(g)
    /\ reg' = g
    /\ outlived' = outlived
    /\ UNCHANGED <<technology, misnamed>>

\* A cell index is not used again: a free one stands for the next.
Unused(s) == reg.proxy[s] = Empty /\ op.at # s

\* get_lib_proxy, which makes no second proxy for a library cell.
NewProxy(l, i, s, transacting) ==
    LET p == Live(IdOf(reg, l), i) IN
    /\ IsRegistered(l) /\ i \in DOMAIN reg.object[l].cells
    /\ Unused(s) /\ \A r \in CellIndexes : reg.proxy[r] # p
    /\ transacting => CanQueue
    /\ Layout(Placed(Counted(IF transacting THEN Unkept(reg) ELSE reg, p), s, p))
    /\ op' = IF transacting THEN [at |-> s, remove |-> FALSE, done |-> TRUE, cell |-> Empty] ELSE op
    /\ meant' = [IF transacting THEN MeantWithout ELSE meant EXCEPT ![s] = reg.object[l].cells[i]]
    /\ UNCHANGED overlooked

\* delete_cell: the operation keeps the cell, or it is deleted for good.
DeleteCell(s) ==
    /\ reg.proxy[s] # Empty /\ CanQueue
    /\ LET g == Unkept(reg) IN Layout(Placed(Retired(g, g.proxy[s]), s, Empty))
    /\ op' = [at |-> s, remove |-> TRUE, done |-> TRUE, cell |-> reg.proxy[s]]
    /\ meant' = MeantWithout
    /\ overlooked' = overlooked \ {s}

DeleteCellAtOnce(s) ==
    /\ reg.proxy[s] # Empty /\ op.at # s
    /\ Layout(Replaced(reg, s, Empty))
    /\ meant' = [meant EXCEPT ![s] = None]
    /\ overlooked' = overlooked \ {s}
    /\ UNCHANGED op

\* NewRemoveCellOp::new_cell and remove_cell.
PutBack ==
    /\ Layout(Placed(Unretired(reg, op.cell), op.at, op.cell))
    /\ overlooked' = IF IsCold(op.cell) THEN overlooked \cup {op.at} ELSE overlooked
TakeOut ==
    /\ Layout(Placed(Retired(reg, reg.proxy[op.at]), op.at, Empty))
    /\ overlooked' = overlooked \ {op.at}

Replay(redo) ==
    /\ op # NoOp /\ op.done # redo
    /\ IF op.remove = redo THEN TakeOut ELSE PutBack
    /\ op' = [op EXCEPT !.done = redo, !.cell = IF op.remove = redo THEN reg.proxy[op.at] ELSE Empty]
    /\ UNCHANGED meant
Undo == Replay(FALSE)
Redo == Replay(TRUE)

\* The history is cleared: a cell it keeps is deleted.
Forget ==
    /\ op # NoOp
    /\ Layout(Unkept(reg))
    /\ op' = NoOp
    /\ meant' = MeantWithout
    /\ UNCHANGED overlooked

Next ==
    \/ \E l \in Libraries, n \in Names :
        \/ \E techs \in SUBSET Technologies :
            \/ Rename(l, n, techs)
            \/ \E cells \in Contents : Register(l, n, techs, cells)
        \/ \E cells \in Contents : Refresh(l, n, cells)
        \/ Reregister(l, n)
    \/ \E l \in Libraries : Unregister(l) \/ Delete(l) \/ RefreshFails(l)
    \/ \E t \in Technologies \cup {None} : SetTechnology(t)
    \/ \E l \in Libraries, i \in Indexes, s \in CellIndexes : NewProxy(l, i, s, TRUE) \/ NewProxy(l, i, s, FALSE)
    \/ \E s \in CellIndexes : DeleteCell(s) \/ DeleteCellAtOnce(s)
    \/ Undo \/ Redo \/ Forget

Spec == Init /\ [][Next]_vars

-----------------------------------------------------------------------------
(* Properties                                                              *)

ProxyType(p) ==
    \/ p = Empty
    \/ IsLive(p) /\ p.id \in DOMAIN reg.libs /\ p.index \in Indexes
    \/ IsCold(p) /\ p.library \in Names \cup {None} /\ p.cell \in Cells \cup {None}

\* Every variable keeps its type: no count gets below zero or above the number of
\* proxies there can be, and ids and indices stay in their ranges.
TypeOK ==
    /\ ToSet(reg.libs) \subseteq Libraries \cup {None}
    /\ \A n \in Names : ToSet(reg.byName[n]) \subseteq DOMAIN reg.libs
    /\ \A l \in Libraries : LET o == reg.object[l] IN
        /\ o.name \in Names \cup {None}
        /\ o.technologies \subseteq Technologies /\ o.cells \in Contents \cup {<<>>}
        /\ \A i \in Indexes : o.refcount[i] \in 0..Cardinality(CellIndexes) /\ o.retired[i] \in 0..MaxRetired
        /\ o.referrers \in 0..Cardinality(CellIndexes)
    /\ \A s \in CellIndexes : ProxyType(reg.proxy[s])
    /\ technology \in Technologies \cup {None}
    /\ ProxyType(op.cell) /\ op.at \in CellIndexes \cup {None}
    /\ op.remove \in BOOLEAN /\ op.done \in BOOLEAN
    /\ meant \in [CellIndexes -> Cells \cup {None}]
    /\ outlived \in BOOLEAN /\ overlooked \subseteq CellIndexes
    /\ misnamed \subseteq DOMAIN reg.libs

\* The name table leads to registered libraries of that name, to each one at most once:
\* lib_by_name follows its ids without a check (dbLibraryManager.cc:114, 132).  Excepted
\* is the id under which a library was registered again by another name: the entry stays
\* where it was, also when the library is gone and the id has got to another one.
NamesMatchRegistry ==
    \A n \in Names : \A k \in DOMAIN reg.byName[n] : reg.byName[n][k] \notin misnamed =>
        /\ Lib(reg, reg.byName[n][k]) # None
        /\ reg.object[Lib(reg, reg.byName[n][k])].name = n
        /\ \A j \in DOMAIN reg.byName[n] : reg.byName[n][j] = reg.byName[n][k] => j = k

\* Whatever happens to the libraries, a proxy of the layout is for the library cell it
\* was made for, or cold and knows the name of that cell.  Not so if an operation of the
\* history has outlived a library cell: undo and the deletion of what it keeps act on
\* the library that has got the id.
ReferencesKeepTheirCell ==
    outlived \/ \A s \in CellIndexes : LET p == reg.proxy[s] IN
        /\ IsLive(p) => CellOf(reg, p) = meant[s]
        /\ IsCold(p) => p.cell = meant[s]

ProxiesOf(id) == {s \in CellIndexes : IsLive(reg.proxy[s]) /\ reg.proxy[s].id = id}
KeptOf(id) == IF IsLive(op.cell) /\ op.cell.id = id THEN {op.at} ELSE {}

\* A library knows how many proxies each of its cells has, those of the history
\* included, and whether the layout refers to it: remap_to looks into no other layout.
CountsExact ==
    outlived \/ \A id \in DOMAIN reg.libs : Lib(reg, id) # None =>
        LET o == reg.object[Lib(reg, id)] IN
        /\ \A i \in Indexes : o.refcount[i] =
               Cardinality({s \in ProxiesOf(id) : reg.proxy[s].index = i}
                           \cup {s \in KeptOf(id) : op.cell.index = i})
        /\ o.referrers = Cardinality(ProxiesOf(id) \cup KeptOf(id))

\* No proxy of the layout stays cold although lib_by_name finds a library with its cell
\* for the technology of the layout.  Excepted are those that no call tried to restore:
\* rename does not look for them, undo brings them back as they were, and those of a
\* library that is known by another name than its own are looked for under the wrong one.
ColdOnlyIfUnserved ==
    \A s \in CellIndexes \ overlooked : ~Restorable(reg, technology, s)

\* A registered library is found by its name for its technologies.  dbLibraryManager.h:99
\* promises that lib_by_name looks up a library valid for all technologies listed, but
\* unregister_lib (dbLibraryManager.cc:155) takes all libraries of a name off the table.
\* Libraries that are misnamed are not meant here.
RegisteredIsFound ==
    \A l \in Libraries : IsRegistered(l) /\ IdOf(reg, l) \notin misnamed =>
        LibByName(reg, reg.object[l].name, reg.object[l].technologies) # NoId

IsRetired(o, i) == o.refcount[i] # 0 /\ o.retired[i] = o.refcount[i]

\* dbLibrary.h:233: the retired state tells "whether a proxy is actually used or only
\* present as a shadow object for the transaction management".  But a proxy that is
\* taken out and deleted stays in the retired count, so that a later one is hidden.
RetiredMeansUnused ==
    \A s \in CellIndexes : IsLive(reg.proxy[s]) /\ Lib(reg, reg.proxy[s].id) # None =>
        ~IsRetired(reg.object[Lib(reg, reg.proxy[s].id)], reg.proxy[s].index)
=============================================================================
