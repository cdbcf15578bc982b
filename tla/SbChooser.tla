----------------------------- MODULE SbChooser ------------------------------
(***************************************************************************)
(* sbchooser(1): the options in the order they are given, the databases    *)
(* they name, the files, the score of each file against db and dbx, the    *)
(* order of the files and what is printed of them (sbchooser.c,            *)
(* sbchooser-db.c, sbchooser-pe.c, sbchooser-x509.c).  Loading one file is *)
(* PeImage.                                                                *)
(*                                                                         *)
(* A database is a set of entries: certificates, digests, entries of other *)
(* types, and certificates that cannot be parsed.  A certificate has the   *)
(* names, the serial number, the dates and the algorithms; there is no     *)
(* cryptography in it, as there is none in the code.                       *)
(***************************************************************************)
EXTENDS PeImage

CONSTANTS
    Files,    \* the files there are, in the order of their names
    Menus,    \* users: the systems they are on (what the firmware has for db
              \* and dbx), the options, files and databases they give, and
              \* the most files they give
    Damaged   \* a database that cannot be parsed

\* The security strength of a digest.
MdBits == [SHA512 |-> 256, SHA384 |-> 192, SHA256 |-> 128, SHA224 |-> 112, SHA1 |-> 80]

Certificate ==
    [subject : STRING, issuer : STRING, serial : Nat, md : DOMAIN MdBits, key : Nat,
     not_before : Nat, not_after : Nat]

U32 == 0 .. Word - 1

TableEntry == [kind : {"pkcs7", "other", "bad"}, len : U32, signers : Seq(Certificate)]

Section == [ptr : U32, size : U32, va : U32, vsize : U32, uninit : BOOLEAN]

Image ==
    [id : STRING, size : Nat, body : Nat, wellmade : BOOLEAN, lfanew : U32, opt : U32,
     rvas : U32, image : U32, headers : U32, sections : Seq(Section), va : U32,
     dirsize : U32, table : Seq(TableEntry)]

ASSUME FilesAssumption == \A n \in DOMAIN Files : Files[n] \in Image

\* The digests of a database are those the code computes of a file.
IsDb(s) ==
    \A e \in s : e.kind = "digest" => e \in [kind : {"digest"}, alg : Algorithm, digest : {e.digest}]

ASSUME MenusAssumption ==
    \A m \in Menus :
        /\ m.most \in Nat \ {0} /\ m.files \subseteq DOMAIN Files
        /\ \A s \in m.secdbs \ {Damaged} : IsDb(s)
        /\ \A y \in m.systems, d \in {"db", "dbx"} :
                y[d].kind = "there" /\ y[d].entries # Damaged => IsDb(y[d].entries)

VARIABLES
    sys,      \* the system
    menu,     \* the user
    given,    \* history: the options so far
    phase,    \* "options", "args", "db", "dbx", "parse", "input", "stdin", "score",
              \* "print", "done", "exit" after an error, or "killed"
    db, dbx,  \* ctx.db, ctx.dbx
    needs,    \* needs_db and needs_dbx: the databases still to load
    flags,    \* explain, first_sig_only and read_inputs_from_stdin
    files,    \* ctx.files
    loading,  \* the name and the phase load_pe returns to
    errno,
    at,       \* the loop that scores or prints: a file, and its signature
    low,      \* lowest_md_secbits and lowest_pk_secbits
    out       \* what was printed

choice == <<sys, menu>>
dbs == <<db, dbx, needs>>
loop == <<at, low, out>>
vars == <<choice, given, phase, dbs, flags, files, loading, errno, loop, peVars>>

NotLoading == [name |-> 0, back |-> "none"]

Init ==
    /\ menu \in Menus
    /\ sys \in menu.systems
    /\ given = {}
    /\ phase = "options"
    /\ db = {} /\ dbx = {}
    /\ needs = {"db", "dbx"}
    /\ flags = {}
    /\ files = <<>>
    /\ loading = NotLoading
    /\ errno \in {"ENOENT", "other"}
    /\ at = [file |-> 1, sig |-> 0]
    /\ low = [md |-> 0, pk |-> 0]
    /\ out = <<>>
    /\ PeInit

-----------------------------------------------------------------------------
(* Options                                                                 *)

Parsing == phase = "options" /\ lpc = "idle"

Option(o) == Parsing /\ o \in menu.options \ given /\ given' = given \cup {o}

Exit == phase' = "exit"

\* -e, -f, -i -
Flag(o, f) ==
    /\ Option(o)
    /\ flags' = flags \cup {f}
    /\ UNCHANGED <<choice, phase, dbs, files, loading, errno, loop, peVars>>

\* -D, -X
NoSystem(o, which) ==
    /\ Option(o)
    /\ needs' = needs \ {which}
    /\ UNCHANGED <<choice, phase, db, dbx, flags, files, loading, errno, loop, peVars>>

\* Signatures that were parsed are added to those of the database.
Added(which, entries) ==
    /\ db' = IF which = "db" THEN db \cup entries ELSE db
    /\ dbx' = IF which = "dbx" THEN dbx \cup entries ELSE dbx

\* Mutant: a database file does not take the place of the system's.
DoneStill(which) == needs

\* needs_db = false, needs_dbx = false.
Done(which) == needs \ {which}

\* -d, -x: load_secdb_from_file.
FromFile(o, which) ==
    /\ Option(o)
    /\ \E s \in menu.secdbs :
        \/ /\ s # Damaged
           /\ Added(which, s)
           /\ needs' = Done(which)
           /\ UNCHANGED phase
        \/ s = Damaged /\ Exit /\ UNCHANGED dbs
    /\ UNCHANGED <<choice, flags, files, loading, errno, loop, peVars>>

\* load_secdb_from_var, and what main() does when it fails: a variable that
\* is missing does not matter, and without any variables errno is what the
\* last failure left.
LoadVar(which, next) ==
    LET v == sys[which] IN
    \/ /\ v.kind = "there" /\ v.entries # Damaged
       /\ Added(which, v.entries)
       /\ phase' = next /\ UNCHANGED errno
    \/ /\ v.kind = "there" /\ v.entries = Damaged
       /\ Exit /\ UNCHANGED <<db, dbx, errno>>
    \/ /\ v.kind = "missing"
       /\ errno' = "ENOENT"
       /\ phase' = next /\ UNCHANGED <<db, dbx>>
    \/ /\ v.kind = "unsupported" /\ errno = "ENOENT"
       /\ phase' = next /\ UNCHANGED <<db, dbx, errno>>
    \/ /\ v.kind = "fails" \/ (v.kind = "unsupported" /\ errno # "ENOENT")
       /\ Exit /\ UNCHANGED <<db, dbx, errno>>

\* -s, -S
FromSystem(o, which) ==
    /\ Option(o)
    /\ LoadVar(which, phase)
    /\ needs' = needs \ {which}
    /\ UNCHANGED <<choice, flags, files, loading, loop, peVars>>

\* add_one_pe_to_ctx: with -i, behind --, or from standard input.
AddFile ==
    /\ \/ Parsing
       \/ phase \in {"args", "stdin"} /\ lpc = "idle"
    /\ Len(files) < menu.most
    /\ \E n \in menu.files :
        /\ StartLoad(Files[n])
        /\ loading' = [name |-> n, back |-> phase]
    /\ UNCHANGED <<choice, given, phase, dbs, flags, files, errno, loop>>

Loading ==
    /\ LoadStep
    /\ UNCHANGED <<choice, given, phase, dbs, flags, files, loading, errno, loop>>

Bound == 1000000  \* 0xffffffff: more than any strength

MinOf(S) == CHOOSE n \in S : \A m \in S : n <= m
MaxOf(S) == CHOOSE n \in S : \A m \in S : n >= m

\* The security strength of a public key; c.key is the length of the encoded
\* RSA key in bits, 0 for other keys.
PkBits(c) ==
    CASE c.key >= 15360 -> 256
      [] c.key >= 7690 /\ c.key < 15360 -> 192
      [] c.key >= 3072 /\ c.key < 7690 -> 128
      [] c.key >= 2048 /\ c.key < 3072 -> 112
      [] c.key >= 1024 /\ c.key < 2048 -> 80
      [] OTHER -> 0

SecBits(c) == MinOf({MdBits[c.md], PkBits(c)})

\* add_one_cert keeps as worst_cert the first certificate that cert_sec_cmp
\* prefers to all others: the strongest.
WorstCert(s) ==
    s[CHOOSE i \in DOMAIN s :
        \A j \in DOMAIN s : \/ SecBits(s[j]) < SecBits(s[i])
                            \/ SecBits(s[j]) = SecBits(s[i]) /\ i <= j]

Certs(ss) == UNION {Range(ss[i]) : i \in DOMAIN ss}

\* The dates of the file are those of all its signatures; 0 for none.
LatestNotAfter(ss) == MaxOf({c.not_after : c \in Certs(ss)} \cup {0})
EarliestNotBefore(ss) ==
    IF ss = <<>> THEN 0 ELSE MinOf({c.not_before : c \in Certs(ss)})

\* The file joins ctx.files as it was loaded, with first_sig_only of now.
Loaded ==
    /\ lpc = "loaded"
    /\ files' = Append(files,
        [name |-> loading.name, sigs |-> sigs, digest |-> Digest,
         first |-> "first" \in flags,
         not_after |-> LatestNotAfter(sigs), not_before |-> EarliestNotBefore(sigs),
         revoked |-> {}, trusted |-> {}, secbits |-> 0, why |-> "none",
         signed |-> FALSE])
    /\ errno' = "other"
    /\ loading' = NotLoading
    /\ EndLoad
    /\ UNCHANGED <<choice, given, phase, dbs, flags, loop>>

LoadFailed ==
    /\ lpc = "failed"
    /\ Exit
    /\ loading' = NotLoading
    /\ EndLoad
    /\ UNCHANGED <<choice, given, dbs, flags, files, errno, loop>>

\* The program read a page that is not there.
Killed ==
    /\ lpc = "killed"
    /\ phase' = "killed"
    /\ loading' = NotLoading
    /\ EndLoad
    /\ UNCHANGED <<choice, given, dbs, flags, files, errno, loop>>

-----------------------------------------------------------------------------
(* After the options                                                       *)

EndOptions ==
    /\ Parsing
    /\ phase' = "args"
    /\ UNCHANGED <<choice, given, dbs, flags, files, loading, errno, loop, peVars>>

EndArgs ==
    /\ phase = "args" /\ lpc = "idle"
    /\ phase' = "db"
    /\ UNCHANGED <<choice, given, dbs, flags, files, loading, errno, loop, peVars>>

\* The databases of the system, unless an option spoke for or against them.
DefaultDb(which, here, next) ==
    /\ phase = here
    /\ IF which \in needs THEN LoadVar(which, next)
       ELSE phase' = next /\ UNCHANGED <<db, dbx, errno>>
    /\ UNCHANGED <<choice, given, needs, flags, files, loading, loop, peVars>>

\* parse_secdb_info: a certificate OpenSSL cannot parse fails it; digests and
\* certificates are kept, entries of other types ignored.
ParseSecdbInfo ==
    /\ phase = "parse"
    /\ IF \E e \in db \cup dbx : e.kind = "badcert" THEN Exit ELSE phase' = "input"
    /\ UNCHANGED <<choice, given, dbs, flags, files, loading, errno, loop, peVars>>

\* Standard input is read when it was asked for, or is all there is.
ChooseInput ==
    /\ phase = "input"
    /\ \/ "stdin" \in flags /\ phase' = "stdin"
       \/ "stdin" \notin flags /\ files # <<>> /\ phase' = "score"
       \/ "stdin" \notin flags /\ files = <<>> /\ phase' \in {"stdin", "exit"}
    /\ UNCHANGED <<choice, given, dbs, flags, files, loading, errno, loop, peVars>>

\* The end of standard input.
EndInput ==
    /\ phase = "stdin" /\ lpc = "idle"
    /\ phase' = IF files = <<>> THEN "exit" ELSE "score"
    /\ UNCHANGED <<choice, given, dbs, flags, files, loading, errno, loop, peVars>>

-----------------------------------------------------------------------------
(* update_pe_security                                                      *)

DbCerts(d) == {e.cert : e \in {x \in d : x.kind = "cert"}}

\* is_same_cert: the serial numbers differ when it says they are the same.
Is_same_cert(c, d) == c.issuer = d.issuer /\ c.serial # d.serial

Is_issuing_cert(c, d) == c.issuer = d.subject

\* get_revocation, get_authorization.
Finds(c, d) == \E e \in DbCerts(d) : Is_same_cert(c, e) \/ Is_issuing_cert(c, e)

\* check_secdb_hash for the three digests.
Hashes(p, d) == {a \in Algorithm : [kind |-> "digest", alg |-> a, digest |-> p.digest] \in d}

Pe == files[at.file]

\* check_dbx_hashes and check_db_hashes, before the signatures.
CheckHashes ==
    /\ phase = "score" /\ at.file <= Len(files) /\ at.sig = 0
    /\ files' = [files EXCEPT ![at.file].revoked = Hashes(Pe, dbx),
                              ![at.file].trusted = Hashes(Pe, db)]
    /\ at' = [at EXCEPT !.sig = 1]
    /\ low' = [md |-> Bound, pk |-> Bound]
    /\ UNCHANGED <<choice, given, phase, dbs, flags, loading, errno, out, peVars>>

\* update_sig_trust: one revoked certificate revokes the signature, and the
\* reason given is its.
SigRevoked(s) == \E c \in Range(s) : Finds(c, dbx)

\* Mutant: a signature that is revoked stays trusted.
SigTrustedStill(s) == \E c \in Range(s) : Finds(c, db)

SigTrusted(s) == ~SigRevoked(s) /\ \E c \in Range(s) : Finds(c, db)

SigWhy(s) ==
    IF SigRevoked(s) THEN "revoked" ELSE IF SigTrusted(s) THEN "trusted" ELSE "none"

\* Mutant: the reason of the first signature stays.
WhyFirst(p, s) == IF p.why = "none" THEN SigWhy(s) ELSE p.why

\* The first reason, until a signature is trusted.
Why(p, s) ==
    IF p.why = "none" \/ (SigTrusted(s) /\ ~p.signed) THEN SigWhy(s) ELSE p.why

ScoreSig ==
    /\ phase = "score" /\ at.file <= Len(files) /\ at.sig \in 1 .. Len(Pe.sigs)
    /\ LET s == Pe.sigs[at.sig]
           w == WorstCert(s)
           t == SigTrusted(s) IN
       /\ files' = [files EXCEPT ![at.file].why = Why(Pe, s),
                                 ![at.file].signed = Pe.signed \/ t]
       /\ low' = IF t THEN [md |-> MinOf({low.md, MdBits[w.md]}),
                            pk |-> MinOf({low.pk, PkBits(w)})] ELSE low
    /\ at' = [at EXCEPT !.sig = IF Pe.first THEN Len(Pe.sigs) + 1 ELSE at.sig + 1]
    /\ UNCHANGED <<choice, given, phase, dbs, flags, loading, errno, out, peVars>>

ScoreOf(p) == IF p.signed THEN MinOf({low.md, low.pk}) ELSE 0

FileScored ==
    /\ phase = "score" /\ at.file <= Len(files) /\ at.sig = Len(Pe.sigs) + 1
    /\ files' = [files EXCEPT ![at.file].secbits = ScoreOf(Pe)]
    /\ at' = [file |-> at.file + 1, sig |-> 0]
    /\ low' = [md |-> 0, pk |-> 0]
    /\ UNCHANGED <<choice, given, phase, dbs, flags, loading, errno, out, peVars>>

-----------------------------------------------------------------------------
(* pe_cmp                                                                  *)

HashBits(p) ==
    IF p.revoked # {} THEN 0 ELSE MaxOf({MdBits[a] : a \in p.trusted} \cup {0})

Is_revoked_by_hash(p) == p.revoked # {}

Is_trusted_by_hash(p) == p.trusted # {}

Flagged(b) == IF b THEN 1 ELSE 0

\* Mutant: the earlier of two dates of expiry is preferred.
KeyEarliest(p) ==
    <<Flagged(Is_revoked_by_hash(p)), Flagged(Is_trusted_by_hash(p)), HashBits(p), p.secbits,
      -p.not_after, -p.not_before>>

\* What pe_cmp compares, in this order, the greater first: whether the file is
\* revoked or trusted by a hash, the strengths, the dates (compare_validities).
Key(p) ==
    <<Flagged(Is_revoked_by_hash(p)), Flagged(Is_trusted_by_hash(p)), HashBits(p), p.secbits,
      p.not_after, -p.not_before>>

Greater(k, l) == \E i \in DOMAIN k : k[i] > l[i] /\ \A j \in 1 .. i - 1 : k[j] = l[j]

Pe_cmp(p, q) == Greater(Key(p), Key(q)) \/ (Key(p) = Key(q) /\ p.name < q.name)

\* qsort() with pe_cmp; the order of files that it calls equal is not defined.
Sort ==
    /\ phase = "score" /\ at.file > Len(files)
    /\ \E p \in Bijection(DOMAIN files, DOMAIN files) :
        /\ \A i, j \in DOMAIN files : i < j => ~Pe_cmp(files[p[j]], files[p[i]])
        /\ files' = [i \in DOMAIN files |-> files[p[i]]]
    /\ at' = [file |-> 1, sig |-> 0]
    /\ phase' = "print"
    /\ UNCHANGED <<choice, given, dbs, flags, loading, errno, low, out, peVars>>

-----------------------------------------------------------------------------
(* The output                                                              *)

\* What is printed of a file: its name when it is good, or with --explain
\* the verdict on every file and its reason.
Line(good, why) ==
    IF "explain" \in flags THEN <<[of |-> at.file, good |-> good, why |-> why]>>
    ELSE IF good THEN <<[of |-> at.file, good |-> TRUE, why |-> "none"]>> ELSE <<>>

PrintFile ==
    /\ phase = "print" /\ at.file <= Len(files)
    /\ LET p == Pe IN
       out' = out \o (IF Is_revoked_by_hash(p) THEN Line(FALSE, "revoked")
                      ELSE IF Is_trusted_by_hash(p) THEN Line(TRUE, "trusted")
                      ELSE Line(p.secbits > 0, p.why))
    /\ at' = [at EXCEPT !.file = @ + 1]
    /\ UNCHANGED <<choice, given, phase, dbs, flags, files, loading, errno, low, peVars>>

Finish ==
    /\ phase = "print" /\ at.file > Len(files)
    /\ phase' = "done"
    /\ UNCHANGED <<choice, given, dbs, flags, files, loading, errno, loop, peVars>>

Next ==
    \/ Flag("-e", "explain") \/ Flag("-f", "first") \/ Flag("-i -", "stdin")
    \/ NoSystem("-D", "db") \/ NoSystem("-X", "dbx")
    \/ FromFile("-d", "db") \/ FromFile("-x", "dbx")
    \/ FromSystem("-s", "db") \/ FromSystem("-S", "dbx")
    \/ AddFile \/ Loading \/ Loaded \/ LoadFailed \/ Killed
    \/ EndOptions \/ EndArgs
    \/ DefaultDb("db", "db", "dbx") \/ DefaultDb("dbx", "dbx", "parse")
    \/ ParseSecdbInfo \/ ChooseInput \/ EndInput
    \/ CheckHashes \/ ScoreSig \/ FileScored \/ Sort \/ PrintFile \/ Finish

Spec == Init /\ [][Next]_vars /\ WF_vars(Next)

-----------------------------------------------------------------------------
(* Properties                                                              *)

\* The signatures of the file as it is on the disk that count.
Counted(p) ==
    LET t == Files[p.name].table IN
    {t[k].signers : k \in {j \in DOMAIN t : /\ t[j].kind = "pkcs7"
                                            /\ p.first => NumSigs(t, j) = 1}}

\* What sbchooser-x509.h:56 says of is_same_cert.
SameCert(c, d) == c.issuer = d.issuer /\ c.serial = d.serial

\* A certificate of the database is c, or the one that issued c.
Matches(c, d) == \E e \in DbCerts(d) : SameCert(c, e) \/ Is_issuing_cert(c, e)

Trusting(p) ==
    {s \in Counted(p) : /\ \E c \in Range(s) : Matches(c, db)
                        /\ ~ \E c \in Range(s) : Matches(c, dbx)}

\* A database with certificates from the issuer of a signer's certificate has
\* the issuer, too: it matches, whichever of the others is the same.
Clear(p) ==
    \A s \in Counted(p) : \A c \in Range(s) : \A d \in {db, dbx} :
        (\E e \in DbCerts(d) : e.issuer = c.issuer) =>
            \E e \in DbCerts(d) : Is_issuing_cert(c, e)

\* The rule of the comment at sbchooser.c:304.
ByHash(p, d) == \E e \in d : e.kind = "digest" /\ e.digest = p.digest
Rule(p, trusting) == ~ByHash(p, dbx) /\ (ByHash(p, db) \/ trusting # {})

\* A signature has a strength; keys other than RSA have none.
Rated(p) == \A s \in Counted(p) : \E c \in Range(s) : SecBits(c) > 0

\* The verdict on a file follows the rule, and it is given once.
VerdictOn(f) ==
    LET p == files[f]
        lines == {i \in DOMAIN out : out[i].of = f}
        good == Rule(p, Trusting(p))
    IN /\ Cardinality({i \in lines : out[i].good}) = Flagged(good)
       /\ "explain" \in flags => Cardinality(lines) = 1

\* The verdict on every file follows the rule quoted at sbchooser.c:304, with
\* certificates compared as sbchooser-x509.h:56 says, whatever the order of its
\* signatures, their mixture of trusted and revoked ones and the databases'
\* sources.  Nothing is listed twice, and --explain speaks of every file.
\* Left out are files with a key the code has no strength for, and those with
\* a signer whose own or whose sibling's certificate is in a database without
\* that of their issuer: is_same_cert tells the two apart the wrong way round, so
\* that the one file is not started by its certificate in db, and the other is
\* (RevokedNotListed shows it for dbx).
PrintedRight ==
    phase = "done" =>
        \A f \in DOMAIN files :
            Whole(Files[files[f].name]) /\ Rated(files[f]) /\ Clear(files[f]) => VerdictOn(f)

Signatures(p) == {e.signers : e \in {x \in Range(Files[p.name].table) : x.kind = "pkcs7"}}

\* The criteria of sbchooser(1), from the highest to the lowest, by the
\* signatures that count: "If "first_sig_only" is true, only the first signature
\* will be scored and used for sorting" (sbchooser-pe.h:140).
Merit(p) ==
    LET best == {MdBits[a] : a \in {x \in Algorithm :
                    [kind |-> "digest", alg |-> x, digest |-> p.digest] \in db}} IN
    <<MaxOf(best \cup {0}),
      IF Trusting(p) = {} THEN 0
      ELSE MinOf({SecBits(c) : c \in UNION {Range(s) : s \in Trusting(p)}}),
      MaxOf({c.not_after : c \in UNION {Range(s) : s \in Counted(p)}} \cup {0}),
      IF Counted(p) = {} THEN 0
      ELSE -MinOf({c.not_before : c \in UNION {Range(s) : s \in Counted(p)}})>>

\* The signatures that count have one signer each.
OneSigner(p) == \A s \in Counted(p) : Len(s) = 1

Comparable(p) == OneSigner(p) /\ Clear(p) /\ Whole(Files[p.name])

\* No signature is put aside by --first-sig-only.
AllCount(p) == Counted(p) = Signatures(p)

Told(i) == files[out[i].of]

\* The i-th line is before the j-th, and both are of files to start.
Listed(i, j) == i < j /\ out[i].good /\ out[j].good

\* The best choice is first (sbchooser(1)): hashes before signatures, by
\* strength, then by the dates of the certificates, although a file is trusted
\* in several ways at once.  For files whose signatures have one signer each:
\* with several, the code takes the strongest where the manual says the lowest.
\* And for files whose signatures all count: under --first-sig-only the code still
\* takes the dates of all of them (sbchooser-pe.c:392), against the comment above.
BestFirst ==
    phase = "done" =>
        \A i, j \in DOMAIN out :
            /\ Listed(i, j)
            /\ \A p \in {Told(i), Told(j)} : Comparable(p) /\ AllCount(p)
            => ~Greater(Merit(Told(j)), Merit(Told(i)))

\* The reason --explain prints agrees with the verdict it prints: a file that
\* is good is not called revoked because an earlier signature is, nor the
\* other way round.  Keys without a strength are left out.
ExplainHonest ==
    phase = "done" =>
        \A i \in DOMAIN out :
            "explain" \in flags /\ Rated(Told(i)) =>
                IF out[i].good THEN out[i].why = "trusted" ELSE out[i].why # "trusted"

\* The verdict on each file and the reason given for it are those of db and
\* dbx, although both are collected over a loop in which later signatures
\* overwrite what earlier ones said (sbchooser-pe.c:966).
VerdictRight == PrintedRight /\ ExplainHonest

\* The databases in use are those the options name, in whatever order they
\* came: the files, and those of the system when asked for, or when neither a
\* file nor the opposite option was given.
OptionsRight ==
    phase \in {"input", "stdin", "score", "print", "done"} =>
        \A d \in {"db", "dbx"} :
            LET file == IF d = "db" THEN "-d" ELSE "-x"
                on == IF d = "db" THEN "-s" ELSE "-S"
                off == IF d = "db" THEN "-D" ELSE "-X"
                has == IF d = "db" THEN db ELSE dbx
                want == sys[d].kind = "there" /\ (on \in given \/ given \cap {file, off} = {})
            IN /\ want => sys[d].entries \subseteq has
               /\ file \notin given => has \subseteq IF want THEN sys[d].entries ELSE {}
               /\ file \in given => \E s \in menu.secdbs \ {Damaged} :
                    has = s \cup (IF want THEN sys[d].entries ELSE {})

\* sbchooser comes to an end: no file, whatever its certificate table says of
\* the lengths of its certificates (sbchooser-pe.c:455), keeps it busy.
Ends == <>(phase \in {"done", "exit", "killed"})

\* is_same_cert "returns true if these certs have the same issuer and serial
\* number" (sbchooser-x509.h:56): a file is listed only when no certificate of
\* the signature that counts is itself in dbx.
RevokedNotListed ==
    phase = "done" =>
        \A i \in DOMAIN out :
            out[i].good /\ ~ByHash(Told(i), db) =>
                \E s \in Counted(Told(i)) : Range(s) \cap DbCerts(dbx) = {}
=============================================================================
