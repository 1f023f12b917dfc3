------------------------------- MODULE FatDir -------------------------------
(***************************************************************************)
(* One directory of the vfat file system, slot by slot: how a long name, a *)
(* short alias and the slots for them are found (vfat_add_entry,           *)
(* vfat_create_shortname, fat_add_entries), how they are read              *)
(* (fat_search_long, fat_parse_long, fat_readdir) and removed              *)
(* (fat_remove_entries), and the negative dentries that say that a name is *)
(* not there.                                                              *)
(*                                                                         *)
(* A call runs under s_lock and under the directory's inode lock: it is    *)
(* one step.  A name is what the code tells apart: the 8.3 form made from  *)
(* it, whether that form is the name itself (in upper case, or not), and   *)
(* how many long-name slots it takes.  The file in a slot is the inode     *)
(* attached to that position.                                              *)
(***************************************************************************)
EXTENDS Integers, Sequences, FiniteSets

CONSTANTS
  Names, Files,
  Kind,          \* of a name: "short" (8.3, upper case), "mixed" (8.3), "long"
  Base, Number,    \* the 8.3 form made from a name; Number is not 0 if the name itself ends in a number tail
  LongSlots,     \* of a name: its length in slots
  NumTail,       \* number tails tried before random ones
  MaxTail,       \* bound on the tails
  dir_per_block, dir_per_clus,
  FAT_MAX_DIR_SIZE,    \* in slots
  MaxErrors      \* bound on the removals that meet a block that cannot be mapped or read

ASSUME FatDirAssumption ==
  /\ Kind \in [Names -> {"short", "mixed", "long"}]
  /\ Number \in [Names -> Nat] /\ LongSlots \in [Names -> Nat \ {0}]
  /\ NumTail \in Nat \ {0} /\ MaxTail \in Nat /\ NumTail <= MaxTail
  /\ dir_per_block \in Nat \ {0} /\ dir_per_clus \in Nat \ {0} /\ FAT_MAX_DIR_SIZE \in Nat
  /\ MaxErrors \in Nat

\* The 8.3 form, as vfat_create_shortname puts it into name_res; how it is made
\* from the characters of a name is left out.
Form(n) == <<Base[n], Number[n]>>

\* What a name is compared by: without case, a name that is its own 8.3 form is
\* that form.
Key(n) == IF Kind[n] = "long" THEN <<n, -1>> ELSE Form(n)

Forms == {Form(n) : n \in Names} \cup {<<Base[n], i>> : n \in Names, i \in 1 .. MaxTail}
Keys == Forms \cup {Key(n) : n \in Names}
Garbled == <<"garbled", -1>>     \* a long name of pieces of several

VARIABLES
  slots,        \* the directory entries
  seen,         \* what a pass over them reads (a function of slots, computed once per step)
  negative,     \* a name with a negative dentry of the directory's present iversion
                \* (one of them, the last one: a lookup has no effect on the others)
  errors,
  skipped       \* a removal has gone on behind a block that cannot be read

faults == <<errors, skipped>>
vars == <<slots, seen, negative, faults>>

\* A slot never used, a deleted one, a piece of a long name, a short name.
End == [t |-> "end"]
Deleted == [t |-> "deleted"]
Piece(n, i, form) == [t |-> "long", id |-> i, last |-> i = LongSlots[n], sum |-> form, name |-> n]
Entry(form, f) == [t |-> "de", form |-> form, file |-> f]

IsFree(s) == s.t \in {"end", "deleted"}
-----------------------------------------------------------------------------
(* fat_parse_long, fat_search_long, __fat_readdir.                         *)

\* The pieces announced by the one at p, which has the mark of the last: they do
\* not go on at p + j.
Breaks(s, p, j) ==
  \/ p + j > Len(s)
  \/ s[p + j].t # "long"
  \/ s[p + j].id # s[p].id - j
  \/ s[p + j].sum # s[p].sum

FirstBreak(s, p) ==
  CHOOSE j \in 1 .. s[p].id : /\ j < s[p].id => Breaks(s, p, j)
                              /\ \A i \in 1 .. j - 1 : ~Breaks(s, p, i)

\* The long name in the k pieces before p.  A mark of the last piece ends it.
LongName(s, p, k) ==
  LET m == CHOOSE i \in 1 .. k : s[p - i].last /\ \A j \in 1 .. i - 1 : ~s[p - j].last
  IN IF \E n \in Names : LongSlots[n] = m /\ \A i \in 1 .. m : s[p - i].name = n
     THEN Key(s[p - 1].name) ELSE Garbled

\* A short name at p with k pieces before it: its alias, and the name shown.
Record(s, p, k) ==
  [pos |-> p, nr |-> k, file |-> s[p].file, form |-> s[p].form,
   shown |-> IF k = 0 THEN s[p].form ELSE LongName(s, p, k)]

\* The files read from the slots s.  A piece without a mark is skipped; pieces
\* that break off are read again from where they do; a long name with another
\* alias's checksum is ignored.
Read(s) ==
  LET read[p \in 1 .. Len(s) + 1] ==
        IF p > Len(s) THEN {}
        ELSE CASE s[p].t = "de" -> {Record(s, p, 0)} \cup read[p + 1]
               [] s[p].t = "long" /\ s[p].last ->
                    LET k == s[p].id
                        q == p + FirstBreak(s, p)
                    IN IF q > Len(s) THEN {}
                       ELSE IF q = p + k /\ s[q].t = "de"
                       THEN {Record(s, q, IF s[q].form = s[p].sum THEN k ELSE 0)} \cup read[q + 1]
                       ELSE read[q]
               [] OTHER -> read[p + 1]
  IN read[1]

\* The short name is compared, then the long name.
Matches(e, k) == k \in {e.form, e.shown}

Found(k) == \E e \in seen : Matches(e, k)
Search(k) == CHOOSE e \in seen : Matches(e, k) /\ \A d \in seen : Matches(d, k) => e.pos <= d.pos

\* The root directory, one cluster.
Init ==
  /\ slots = [p \in 1 .. dir_per_clus |-> End]
  /\ seen = {}
  /\ negative = {}
  /\ errors = 0 /\ skipped = FALSE
-----------------------------------------------------------------------------
(* vfat_create_shortname, vfat_build_slots.                                *)

\* fat_scan
Exists(form) == \E e \in seen : e.form = form

\* The first number tail is taken without looking.
AliasUnchecked(n, form) ==
  IF Kind[n] # "long" THEN form = Form(n) /\ ~Exists(form) ELSE form = <<Base[n], 1>>

\* The form itself for a name that is one; else the first number tail that is
\* free, or, when they are all taken, any free one.
Alias(n, form) ==
  IF Kind[n] # "long"
  THEN form = Form(n) /\ ~Exists(form)
  ELSE LET free == {i \in 1 .. MaxTail : ~Exists(<<Base[n], i>>)}
       IN \E i \in free : /\ form = <<Base[n], i>>
                          /\ i > 1 => \A j \in 1 .. NumTail : j >= i \/ j \notin free

\* A name in upper case needs no long name.
Built(n, form, f) ==
  LET k == IF Kind[n] = "short" THEN 0 ELSE LongSlots[n]
  IN [i \in 1 .. k + 1 |-> IF i <= k THEN Piece(n, k + 1 - i, form) ELSE Entry(form, f)]
-----------------------------------------------------------------------------
(* fat_add_entries, fat_remove_entries.                                    *)

\* One slot less than needed.
FreeRunShort(p, k) ==
  \A q \in p .. p + k - 2 : q <= Len(slots) /\ IsFree(slots[q]) /\ q < FAT_MAX_DIR_SIZE

\* Slots p .. p + k - 1 are free and below the size limit; the last slot that
\* the limit allows is never used.
FreeRun(p, k) ==
  \A q \in p .. p + k - 1 : q <= Len(slots) /\ IsFree(slots[q]) /\ q < FAT_MAX_DIR_SIZE

\* Slots from p on hold s; the directory is len long.
Filled(p, s, len) ==
  [q \in 1 .. len |-> IF q \in p .. p + Len(s) - 1 THEN s[q - p + 1]
                      ELSE IF q <= Len(slots) THEN slots[q] ELSE End]

HasRun(s) == \E p \in DOMAIN slots : FreeRun(p, Len(s))

FirstRun(s) ==
  CHOOSE p \in DOMAIN slots : FreeRun(p, Len(s)) /\ \A q \in 1 .. p - 1 : ~FreeRun(q, Len(s))

\* Where the run of free slots at the end of the directory begins.
FreeEnd == CHOOSE p \in 1 .. Len(slots) + 1 :
  /\ \A q \in p .. Len(slots) : IsFree(slots[q])
  /\ p > 1 => ~IsFree(slots[p - 1])

Clusters(n) == (n + dir_per_clus - 1) \div dir_per_clus

\* Free slots may be found, or clusters be added.
MayAdd(s) == HasRun(s) \/ Len(slots) < FAT_MAX_DIR_SIZE

\* The directory with s in the first run of free slots that is long enough; or
\* in the free slots at its end and in new clusters.
Added(s) ==
  IF HasRun(s) THEN Filled(FirstRun(s), s, Len(slots))
  ELSE LET rest == Len(s) - (Len(slots) + 1 - FreeEnd)
       IN Filled(FreeEnd, s, Len(slots) + dir_per_clus * Clusters(rest))

Block(p) == (p - 1) \div dir_per_block

Delete(s, gone) == [p \in DOMAIN s |-> IF p \in gone THEN Deleted ELSE s[p]]

\* As many slots as are left of gone at block b, from the next block on.
Behind(gone, b) ==
  LET left == Cardinality({p \in gone : Block(p) >= b})
      next == (b + 1) * dir_per_block + 1
  IN next .. next + left - 1

\* __fat_remove_entries.  It stops at a block that fat_bmap cannot map.  One that
\* cannot be read is skipped by fat_get_entry: the count of slots goes on behind
\* it.
RemoveSlots(s, gone) ==
  \/ slots' = Delete(s, gone) /\ UNCHANGED faults
  \/ /\ gone # {} /\ errors < MaxErrors /\ errors' = errors + 1
     /\ \E b \in {Block(p) : p \in gone} :
          LET before == {p \in gone : Block(p) < b}
          IN \/ slots' = Delete(s, before) /\ UNCHANGED skipped
             \/ slots' = Delete(s, before \cup Behind(gone, b)) /\ skipped' = TRUE

\* There is no space, or no memory, for a new cluster: the slots that have been
\* filled are removed again.
AddFails(s) ==
  /\ ~HasRun(s) /\ Len(slots) < FAT_MAX_DIR_SIZE
  /\ RemoveSlots(Filled(FreeEnd, s, Len(slots)), FreeEnd .. Len(slots))

\* The slot before the name goes too.
RemoveOneMore(s, e) ==
  RemoveSlots(Delete(s, e.pos - e.nr - 1 .. e.pos), {})

\* The long-name slots stay.
RemoveShortOnly(s, e) == slots' = Delete(s, {e.pos}) /\ UNCHANGED faults

\* First the short name and the pieces in its block, then the other pieces.
Remove(s, e) ==
  LET all == e.pos - e.nr .. e.pos
      first == {p \in all : Block(p) = Block(e.pos)}
  IN RemoveSlots(Delete(s, first), all \ first)
-----------------------------------------------------------------------------
(* vfat_lookup, vfat_create, vfat_unlink, vfat_rename in one directory.    *)

Here == {e.file : e \in seen}

Reread == seen' = Read(slots')

\* inode_inc_iversion: vfat_revalidate drops the negative dentries of an earlier
\* version; those of keys get the new one.
NewVersion(keys) == negative' = keys

\* The directory's iversion is left as it is.
CreateSameVersion(n, f) ==
  /\ ~Found(Key(n)) /\ f \notin Here
  /\ \E form \in Forms :
       LET s == Built(n, form, f)
       IN Alias(n, form) /\ MayAdd(s) /\ slots' = Added(s)
  /\ Reread /\ UNCHANGED <<negative, faults>>

\* The inode is new.  (Its entry is there also when fat_build_inode fails, and
\* the call with it.)
Create(n, f) ==
  /\ ~Found(Key(n)) /\ f \notin Here
  /\ \E form \in Forms :
       LET s == Built(n, form, f)
       IN Alias(n, form) /\ MayAdd(s) /\ slots' = Added(s)
  /\ NewVersion({})
  /\ Reread /\ UNCHANGED faults

CreateFails(n, f) ==
  /\ ~Found(Key(n)) /\ f \notin Here
  /\ \E form \in Forms : Alias(n, form) /\ AddFails(Built(n, form, f))
  /\ Reread /\ UNCHANGED negative

\* The negative dentry gets the directory's version.
Lookup(k) ==
  /\ ~Found(k)
  /\ negative' = {k}
  /\ UNCHANGED <<slots, seen, faults>>

\* The name looked up keeps its dentry, which becomes negative.
Unlink(k) ==
  /\ Found(k)
  /\ Remove(slots, Search(k))
  /\ NewVersion({k})
  /\ Reread

\* The new name's slots first, then the old ones are removed.
RenameNew(k, n) ==
  /\ Found(k) /\ ~Found(Key(n))
  /\ \E form \in Forms :
       LET s == Built(n, form, Search(k).file)
       IN Alias(n, form) /\ MayAdd(s) /\ Remove(Added(s), Search(k))
  /\ NewVersion({})
  /\ Reread

\* The inode takes the position of the one it replaces, whose name stays.
RenameOver(k, l) ==
  /\ Found(k) /\ Found(l) /\ Search(k) # Search(l)
  /\ Remove([slots EXCEPT ![Search(l).pos].file = Search(k).file], Search(k))
  /\ NewVersion({})
  /\ Reread

Next ==
  \/ \E n \in Names, f \in Files : Create(n, f) \/ CreateFails(n, f)
  \/ \E k \in Keys : Lookup(k) \/ Unlink(k)
  \/ \E k \in Keys, n \in Names : RenameNew(k, n)
  \/ \E k, l \in Keys : RenameOver(k, l)

Spec == Init /\ [][Next]_vars
-----------------------------------------------------------------------------
(* Properties.                                                             *)

\* fat_search_long finds every file by the name fat_readdir shows for it and by
\* its alias, and no name leads to two files: vfat_create_shortname makes an
\* alias that no other file has, as its alias or as its name.
NamesFind ==
  errors = 0 =>
    \A e, d \in seen :
      e # d => e.file # d.file /\ {e.form, e.shown} \cap {d.form, d.shown} = {}

\* A negative dentry that vfat_revalidate accepts (its version is the
\* directory's) is of a name that is not there, neither as a long name nor as
\* the alias some later create made up.
NegativeTrue == errors = 0 => \A k \in negative : ~Found(k)

\* Every piece of a long name belongs to a short name behind it: a failed or
\* finished call leaves no slot behind that no later call would free, unless
\* __fat_remove_entries could not reach the pieces.
NoOrphans ==
  errors = 0 =>
    \A p \in DOMAIN slots : slots[p].t = "long" =>
      \E e \in seen : p \in e.pos - e.nr .. e.pos

\* What fat_readdir shows.
Listing == [f \in Here |-> (CHOOSE e \in seen : e.file = f).shown]

\* The slots implement a directory: every call, one that cannot have a new
\* cluster or cannot map the pieces of the name it removes included, adds,
\* removes, renames or replaces one file, or shows the same names as before.
\* (After pieces were left behind, a later short name may take them up.)
Promise == INSTANCE Directory WITH dir <- Listing
ShowsDirectory == Promise!Init /\ [][errors = 0 /\ ~skipped' => Promise!Next]_Listing

\* By their aliases the files stay a directory when pieces could not be mapped
\* for removal: pieces left behind make no call lose a file, or remove or rename
\* another one.  (A block that could be mapped and not read may: the slots behind
\* it are removed in its place.)
AliasListing == [f \in Here |-> (CHOOSE e \in seen : e.file = f).form]
Aliases == INSTANCE Directory WITH dir <- AliasListing
KeepsFiles == Aliases!Init /\ [][skipped' \/ Aliases!Next]_AliasListing
=============================================================================
