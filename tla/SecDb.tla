------------------------------- MODULE SecDb --------------------------------
(***************************************************************************)
(* Security databases (secdb.c, secdb.h): the signatures of a db, dbx or   *)
(* KEK variable, kept as a list of lists.  Every inner list has one type   *)
(* and one size of signature; the library finds the list a signature       *)
(* belongs to, or makes one, and keeps both levels sorted if it is asked   *)
(* to.                                                                     *)
(*                                                                         *)
(* Sizes are counted in words of four bytes, which divides all of them;    *)
(* the data of a signature is a sequence of words.  qsort_r is taken to be *)
(* stable, as glibc's merge sort is.                                       *)
(***************************************************************************)
EXTENDS Integers, Sequences, SequencesExt

CONSTANTS
    Sigs,       \* the signatures callers add and delete
    Files,      \* the signature list files callers parse (see Parse)
    FlagSets,   \* the flags a database is created with
    Settable,   \* the flags that are changed afterwards
    MaxSigs,    \* bound on the signatures counted in one list
    MaxLists    \* bound on the lists of a database

Flag == {"SORT", "SORT_DATA", "SORT_DESCENDING"}

\* efi_secdb_type_t, in its order
Algs == <<"X509_CERT", "X509_SHA256", "SHA256", "X509_SHA512", "SHA512",
          "X509_SHA384", "SHA224", "SHA384", "SHA1", "RSA2048",
          "RSA2048_SHA1", "RSA2048_SHA256">>

Alg == ToSet(Algs)

\* A type guid of a file that secdb_entry_type_from_guid does not find.
Unknown == "unknown"

OwnerSize == 4

EslSize == 7

\* efi_secdb_algs_[alg].size
Size == [a \in Alg |->
    CASE a = "X509_CERT" -> 0
      [] a = "SHA1" -> 5
      [] a = "SHA224" -> 7
      [] a = "SHA256" -> 8
      [] a = "SHA384" -> 12
      [] a = "SHA512" -> 16
      [] a \in {"RSA2048", "RSA2048_SHA1", "RSA2048_SHA256", "X509_SHA256"} -> 64
      [] a = "X509_SHA384" -> 96
      [] a = "X509_SHA512" -> 128]

ASSUME SigsAssumption ==
    \A s \in Sigs : s.alg \in Alg \cup {Unknown} /\ s.data # <<>>
ASSUME FlagsAssumption == FlagSets \subseteq SUBSET Flag /\ Settable \subseteq Flag
ASSUME BoundsAssumption == MaxSigs \in Nat /\ MaxLists \in Nat

VARIABLES
    db,     \* the database: flags and lists
    last    \* the last call and what it returned

vars == <<db, last>>

-----------------------------------------------------------------------------
(* Sizes, and the lists a signature may go to                              *)

\* secdb_entry_size_from_type, for all types but certificates
SigSize(alg, given) == IF alg = "X509_CERT" THEN given ELSE Size[alg] + OwnerSize

\* find_secdb_entry: from the last list to the first; 0 if there is none
Find(lists, alg, datasz) ==
    SelectLastInSeq(lists, LAMBDA l :
        \/ l.listsz = 0
        \/ l.alg = alg /\ l.sigsz = SigSize(alg, datasz + OwnerSize))

\* alloc_secdb_entry: the new list takes the flags its database has now
Alloc(d, alg, sigsz) ==
    [alg |-> alg, sigsz |-> sigsz, nsigs |-> 0, listsz |-> 0,
     flags |-> d.flags, entries |-> <<>>]

\* secdb_add_entry_data and secdb_entry_size
AddData(l, s) ==
    [l EXCEPT !.entries = Append(@, [owner |-> s.owner, data |-> s.data]),
              !.nsigs = @ + 1,
              !.listsz = EslSize + l.sigsz * (l.nsigs + 1)]

Take(data, n) == SubSeq(data, 1, IF n < Len(data) THEN n ELSE Len(data))

-----------------------------------------------------------------------------
(* Sorting (list.h, secdb.c)                                               *)

\* The first of the differences of two sequences of numbers, or 0; a sequence
\* is read no further than the other.
Cmp(a, b) ==
    LET d == {i \in DOMAIN a \cap DOMAIN b : a[i] # b[i]}
        first == CHOOSE i \in d : \A j \in d : i <= j
    IN IF d = {} THEN 0 ELSE a[first] - b[first]

Rank(alg) == CHOOSE i \in 1 .. Len(Algs) : Algs[i] = alg

EntryCmp(a, b) == Cmp(<<a.owner>> \o a.data, <<b.owner>> \o b.data)

ListCmp(a, b) ==
    Cmp(<<Rank(a.alg), a.sigsz, a.listsz>>, <<Rank(b.alg), b.sigsz, b.listsz>>)

\* Whether a may stand before b, given what a comparison says of them.
Before(c, flags) == IF "SORT_DESCENDING" \in flags THEN c >= 0 ELSE c <= 0

\* list_sort; cmp[i][j] is what the comparison says of s[i] and s[j], and the
\* place of an element is the number of those that may not stand behind it.
ListSort(s, cmp, flags) ==
    LET under(i, j) == IF cmp[i][j] = 0 THEN i <= j ELSE Before(cmp[i][j], flags)
        place(i) == Cardinality({j \in DOMAIN s : under(j, i)})
    IN [k \in DOMAIN s |-> s[CHOOSE i \in DOMAIN s : place(i) = k]]

SortEntries(es, flags) ==
    ListSort(es, [i \in DOMAIN es |-> [j \in DOMAIN es |-> EntryCmp(es[i], es[j])]], flags)

SortLists(ls, flags) ==
    ListSort(ls, [i \in DOMAIN ls |-> [j \in DOMAIN ls |-> ListCmp(ls[i], ls[j])]], flags)

-----------------------------------------------------------------------------
(* efi_secdb_add_entry_or_secdb                                            *)

New(flags) == [flags |-> flags, lists |-> <<>>]

\* Mutant: a type the library does not know gets a list as well.
AddUnchecked(d, s, force) ==
    [d EXCEPT !.lists = Append(@, AddData(Alloc(d, s.alg, Len(s.data) + OwnerSize), s))]

\* The data is in the list, whoever owns it.
HasData(l, s) == \E i \in DOMAIN l.entries : Take(l.entries[i].data, Len(s.data)) = s.data

\* The new entry, with the list sorted by what its flags say.
Insert(l, s) ==
    LET more == AddData(l, s)
    IN IF "SORT_DATA" \in l.flags
       THEN [more EXCEPT !.entries = SortEntries(@, l.flags)] ELSE more

\* The end of efi_secdb_add_entry_or_secdb, with l as the list at k: nothing is
\* sorted if the data is there.
AddTo(d, lists, k, l, s) ==
    LET all == [lists EXCEPT ![k] = IF HasData(l, s) THEN l ELSE Insert(l, s)]
    IN [d EXCEPT !.lists = IF ~HasData(l, s) /\ "SORT" \in l.flags
                           THEN SortLists(all, l.flags) ELSE all]

\* The type and the size of the list that was found are set before its
\* entries are looked at.
Add(d, s, force) ==
    LET sigsz == Len(s.data) + OwnerSize
        at    == IF force THEN 0 ELSE Find(d.lists, s.alg, sigsz)
        lists == IF at = 0 THEN Append(d.lists, Alloc(d, s.alg, sigsz)) ELSE d.lists
        k     == IF at = 0 THEN Len(lists) ELSE at
        l     == [lists[k] EXCEPT !.alg = s.alg,
                      !.sigsz = IF force THEN sigsz ELSE SigSize(s.alg, sigsz)]
    IN IF s.alg = Unknown THEN d ELSE AddTo(d, lists, k, l, s)

-----------------------------------------------------------------------------
(* efi_secdb_del_entry                                                     *)

\* Mutant: the data is not compared.
DelByOwner(d, s) ==
    LET k   == IF s.alg = Unknown THEN 0 ELSE Find(d.lists, s.alg, Len(s.data))
        hit == IF k = 0 THEN 0
               ELSE SelectInSeq(d.lists[k].entries, LAMBDA e : e.owner = s.owner)
    IN IF hit = 0 THEN d ELSE [d EXCEPT !.lists[k].entries = RemoveAt(@, hit)]

\* Only one list is searched, for certificates the last OwnerSize words are
\* not compared, and neither nsigs nor listsz change.
Del(d, s) ==
    LET k   == IF s.alg = Unknown THEN 0 ELSE Find(d.lists, s.alg, Len(s.data))
        n   == SigSize(s.alg, Len(s.data)) - OwnerSize
        hit == IF k = 0 THEN 0
               ELSE SelectInSeq(d.lists[k].entries, LAMBDA e :
                        Take(e.data, n) = Take(s.data, n) /\ e.owner = s.owner)
    IN IF hit = 0 THEN d ELSE [d EXCEPT !.lists[k].entries = RemoveAt(@, hit)]

DelResult(d, s) ==
    IF s.alg = Unknown \/ Find(d.lists, s.alg, Len(s.data)) = 0 THEN -1 ELSE 0

-----------------------------------------------------------------------------
(* efi_secdb_parse.  A file is what the iterator of esl-iter.c makes of    *)
(* it: its signatures in order, each with whether it begins a list and     *)
(* whether the size of its list had to be corrected, and whether the       *)
(* iterator got to the end (ok) or failed.                                 *)

\* Mutant: lists of the file stay lists although SORT merges them.
MergeForcing(d, f, fresh) ==
    FoldLeft(LAMBDA acc, i : Add(acc, i.sig, i.corrected \/ i.first), d, f.items)

\* Whether an entry of the file starts a list of its own in a database that had
\* these flags: where the size was corrected, and without SORT where the file
\* starts one, but not at the first entry of a database efi_secdb_parse made.
Forced(it, flags, made) == (it.corrected \/ (it.first /\ "SORT" \notin flags)) /\ ~made

\* The entries so far stay in the database if the iterator fails.
Merge(d, f, fresh) ==
    LET merged[n \in 0 .. Len(f.items)] ==
            IF n = 0 THEN d
            ELSE Add(merged[n - 1], f.items[n].sig, Forced(f.items[n], d.flags, fresh /\ n = 1))
    IN merged[Len(f.items)]

\* Mutant: the sort that Add did is taken to be enough.
ParseUnsorted(d, f, fresh) == Merge(d, f, fresh)

Parse(d, f, fresh) ==
    LET m == Merge(d, f, fresh)
    IN IF f.ok /\ "SORT" \in d.flags
       THEN [m EXCEPT !.lists = SortLists(@, d.flags)] ELSE m

-----------------------------------------------------------------------------
(* efi_secdb_visit_entries, efi_secdb_realize                              *)

\* What is read beyond the end of an entry.
Junk == 255

\* An entry is as long as its list says.
Visited(l, e) ==
    [alg |-> l.alg, owner |-> e.owner,
     data |-> [i \in 1 .. l.sigsz - OwnerSize |->
                  IF i \in DOMAIN e.data THEN e.data[i] ELSE Junk]]

\* secdb_realize_visitor begins a list at the first entry of each list, so
\* a list without entries leaves no trace.
Realize(d) ==
    [items |-> FlattenSeq([k \in DOMAIN d.lists |->
                  [i \in DOMAIN d.lists[k].entries |->
                      [sig |-> Visited(d.lists[k], d.lists[k].entries[i]),
                       first |-> i = 1, corrected |-> FALSE]]]),
     ok |-> TRUE]

-----------------------------------------------------------------------------

Init ==
    /\ \E fl \in FlagSets : db = New(fl)
    /\ last = [op |-> "new", rc |-> 0]

\* efi_secdb_add_entry
AddEntry(s) ==
    /\ Len(db.lists) < MaxLists
    /\ \A i \in DOMAIN db.lists : db.lists[i].nsigs < MaxSigs
    /\ db' = Add(db, s, FALSE)
    /\ last' = [op |-> "add", sig |-> s, rc |-> IF s.alg = Unknown THEN -1 ELSE 0]

DelEntry(s) ==
    /\ db' = Del(db, s)
    /\ last' = [op |-> "del", sig |-> s, rc |-> DelResult(db, s)]

\* efi_secdb_set_bool: the flags of the lists stay what they are
SetBool(flag) ==
    /\ db' = [db EXCEPT !.flags = IF flag \in @ THEN @ \ {flag} ELSE @ \cup {flag}]
    /\ last' = [op |-> "set_bool", rc |-> 0]

ParseFile(f) ==
    /\ Len(db.lists) + Len(f.items) <= MaxLists
    /\ \A i \in DOMAIN db.lists : db.lists[i].nsigs + Len(f.items) <= MaxSigs
    /\ db' = Parse(db, f, FALSE)
    /\ last' = [op |-> "parse", rc |-> IF f.ok THEN 0 ELSE -1]

\* The database is realized and parsed again by somebody else, into a
\* database with the same flags or into one efi_secdb_parse makes.  Without
\* signatures there is nothing to parse.
Rewrite ==
    /\ Realize(db).items # <<>>
    /\ \/ db' = Parse(New(db.flags), Realize(db), FALSE)
       \/ db' = Parse(New({"SORT"}), Realize(db), TRUE)
    /\ last' = [op |-> "rewrite", rc |-> 0]

Next ==
    \/ \E s \in Sigs : AddEntry(s) \/ DelEntry(s)
    \/ \E flag \in Settable : SetBool(flag)
    \/ \E f \in Files : ParseFile(f)
    \/ Rewrite

Spec == Init /\ [][Next]_vars

-----------------------------------------------------------------------------

\* The types whose signatures all have one size
Hash == Alg \ {"X509_CERT"}

HashSig(s) == s \in [alg : Hash, owner : Nat, data : Seq(Nat)] /\ Len(s.data) = Size[s.alg]

\* Signatures have the size of their type or a type the library does not know,
\* no list of a file has a size that is corrected, and the lists are merged
\* from the beginning to the end: without SORT those of a file stay apart.
Regular ==
    /\ \A s \in Sigs : HashSig(s) \/ s.alg = Unknown
    /\ \A f \in Files :
        /\ f.items \in Seq([sig : Sigs, first : BOOLEAN, corrected : {FALSE}])
        /\ f.ok \in BOOLEAN
    /\ (\A fl \in FlagSets : "SORT" \in fl) /\ "SORT" \notin Settable

Entry == [owner : Nat, data : Seq(Nat)]

\* Every variable of the model has its type; an entry has a list of a type
\* that the library knows.
TypeOK ==
    /\ db.flags \subseteq Flag
    /\ \A i \in DOMAIN db.lists :
        LET l == db.lists[i] IN
        /\ l.alg \in Alg
        /\ l.sigsz \in Nat /\ l.nsigs \in Nat /\ l.listsz \in Nat
        /\ l.flags \subseteq Flag
        /\ l.entries \in Seq(Entry)
    /\ last.rc \in {0, -1}

\* The signatures a visitor sees (efi_secdb_visit_entries).
Content ==
    UNION {{Visited(db.lists[i], db.lists[i].entries[j]) :
                j \in DOMAIN db.lists[i].entries} : i \in DOMAIN db.lists}

Set == INSTANCE SigSet WITH content <- Content, Known <- Alg

\* Whatever the order of calls, the lists of lists behave as a set of
\* signatures, and realizing and parsing them again changes nothing: finding
\* the list (secdb.c:50), ignoring what is there (secdb.c:263), sorting and
\* merging lose, invent and change no signature.
ActsAsSet == Set!Spec

\* All signatures of a type and a size are on one list, whoever owns them, so
\* that the list find_secdb_entry (secdb.c:54) finds is the only one they can
\* be on.  The comment at secdb.h:37 has a list stand for one owner, too, but the
\* code is not told the owner when it looks for the list.
OneListPerSize ==
    \A i, j \in DOMAIN db.lists :
        i # j => \/ db.lists[i].alg # db.lists[j].alg
                 \/ db.lists[i].sigsz # db.lists[j].sigsz

\* After a file was parsed the lists have the order that efisecdb(1)
\* describes for --sort, by type, size and length (secdb_cmp), up or down,
\* although the lists made earlier were sorted by the flags of their time.
Ordered ==
    last.op \in {"parse", "rewrite"} /\ last.rc = 0 /\ "SORT" \in db.flags =>
        \A i, j \in DOMAIN db.lists :
            i < j => Before(ListCmp(db.lists[i], db.lists[j]), db.flags)

\* After any calls there is one list for each type and size, which
\* find_secdb_entry and efi_secdb_del_entry depend on, and the lists are in the
\* order that efisecdb(1) describes.
ListsRight == OneListPerSize /\ Ordered
=============================================================================
