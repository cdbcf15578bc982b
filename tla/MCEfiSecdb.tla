----------------------------- MODULE MCEfiSecdb -----------------------------
(***************************************************************************)
(* An instance of EfiSecdb for TLC: sound and damaged input files, and     *)
(* command lines that combine them with additions and removals of hashes.  *)
(***************************************************************************)
EXTENDS EfiSecdb

Sha1(b) == [i \in 1 .. 5 |-> b]

Sha256(b) == [i \in 1 .. 8 |-> b]

Entry(a, o, d, first) ==
    [sig |-> [alg |-> a, owner |-> o, data |-> d], first |-> first]

Plain(f) == f @@ [attrs |-> FALSE]

\* Two hashes on one list and one on another.
Two == Image(<<Entry("SHA256", 1, Sha256(1), TRUE), Entry("SHA256", 1, Sha256(2), FALSE),
               Entry("SHA1", 1, Sha1(1), TRUE)>>)

\* One hash, another owner of a hash of Two, and a type nobody knows.
One == Image(<<Entry("SHA1", 2, Sha1(1), TRUE), Entry("unknown", 1, Sha1(1), TRUE),
               Entry("SHA256", 2, Sha256(3), TRUE)>>)

\* The size of the list at o claims n words more.
Grown(f, o, n) == [f EXCEPT !.heads[o].listsz = @ + n]

\* The list at o is empty although a signature follows.
Emptied(f, o) == [f EXCEPT !.heads[o].listsz = EslSize]

\* The file without its last n words.
Cut(f, n) ==
    [f EXCEPT !.len = @ - n,
              !.sigs = [p \in {q \in DOMAIN @ : q + Len(@[q].data) + OwnerSize <= f.len - n} |-> @[p]]]

MCFiles ==
    [two      |-> Plain(Two),
     one      |-> Plain(One),
     variable |-> One @@ [attrs |-> TRUE],
     padded   |-> Plain([Two EXCEPT !.len = @ + EslSize]),
     grown    |-> Plain(Grown(Two, 31, 5)),
     grown1   |-> Plain(Grown(One, 32, 5)),
     first    |-> Plain(Grown(Two, 0, 90)),
     cut      |-> Plain(Cut(Two, 3)),
     emptied  |-> Plain(Emptied(One, 0)),
     tiny     |-> Plain(EmptyFile),
     locked   |-> Plain(EmptyFile)]

O(name) == [o |-> name]
In(name) == [o |-> "infile", name |-> name]
Hash(d) == [o |-> "hash", data |-> d]
Type(a) == [o |-> "type", name |-> a]
Owner(g) == [o |-> "owner-guid", guid |-> g]
SortBy(h) == [o |-> "sort", how |-> h]

Infiles ==
    {<<>>} \cup {<<In(f)>> : f \in DOMAIN MCFiles}
           \cup {<<In(f), In(g)>> : f \in {"two", "one", "grown1"}, g \in {"two", "variable", "cut"}}

\* Additions and removals, in both orders; options in a wrong order.
Changes ==
    {<<>>,
     <<Owner(1), Type("SHA256"), Hash(Sha256(1)), Hash(Sha256(4))>>,
     <<Type("SHA256"), O("remove"), Owner(1), Hash(Sha256(1)), O("add"), Hash(Sha256(1))>>,
     <<Type("SHA256"), Owner(1), Hash(Sha256(4)), O("remove"), Hash(Sha256(4)), Hash(Sha256(2))>>,
     <<O("remove"), Type("SHA1"), Owner(2), Hash(Sha1(1)), Owner(1), Hash(Sha1(1))>>,
     <<Owner(1), [o |-> "certificate", data |-> Sha1(2)]>>,
     <<Owner(1), [o |-> "certificate", data |-> <<1>>]>>,
     <<Owner(1), Hash(Sha256(1))>>,
     <<Type("SHA1"), Hash(Sha1(1))>>,
     <<Type("SHA1"), Owner(1), Hash(Sha256(1))>>,
     <<Type(NoHash)>>}

Ends ==
    {<<O("outfile")>>, <<O("outfile"), O("force")>>, <<O("dump")>>, <<O("dump"), O("outfile")>>,
     <<SortBy("none"), O("outfile")>>, <<SortBy("data"), SortBy("descending"), O("outfile")>>,
     <<SortBy("all"), SortBy("descending"), SortBy("ascending"), O("outfile")>>,
     <<SortBy("type"), O("outfile"), O("outfile")>>, <<>>, <<O("list-guids")>>}

MCArgvs == {i \o c \o e : i \in Infiles, c \in Changes, e \in Ends}

MCUnreadable == {"locked"}
=============================================================================
