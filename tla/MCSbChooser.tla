---------------------------- MODULE MCSbChooser -----------------------------
(***************************************************************************)
(* Files and databases for sbchooser: the certificates that the examples   *)
(* of sbchooser(1) are about, weaker and stranger ones, files with every   *)
(* kind of layout, and four users.                                         *)
(***************************************************************************)
EXTENDS SbChooser

Cert(s, i, n, md, key, from, to) ==
    [subject |-> s, issuer |-> i, serial |-> n, md |-> md, key |-> key,
     not_before |-> from, not_after |-> to]

Ca11 == Cert("ca11", "root", 1, "SHA256", 2160, 1, 5)
Ca23 == Cert("ca23", "root", 2, "SHA256", 2160, 3, 7)
Leaf11 == Cert("leaf11", "ca11", 1, "SHA256", 2160, 2, 4)
Other11 == Cert("other11", "ca11", 2, "SHA256", 2160, 2, 4)
Leaf23 == Cert("leaf23", "ca23", 1, "SHA256", 2160, 2, 6)
Early23 == Cert("early23", "ca23", 1, "SHA256", 2160, 1, 6)
Weak23 == Cert("weak23", "ca23", 2, "SHA1", 3184, 4, 6)
Curve23 == Cert("curve23", "ca23", 3, "SHA256", 0, 4, 6)

Signed(cs) == [kind |-> "pkcs7", len |-> 2, signers |-> cs]
Foreign == [kind |-> "other", len |-> 2, signers |-> <<>>]
Endless == [kind |-> "other", len |-> 0, signers |-> <<>>]
Garbled == [kind |-> "bad", len |-> 2, signers |-> <<>>]

Sec(p, n) == [ptr |-> p, size |-> n, va |-> p, vsize |-> 1, uninit |-> FALSE]
Bss == [ptr |-> 0, size |-> 0, va |-> 12, vsize |-> 2, uninit |-> TRUE]

\* A file of that many bytes with these sections behind its headers.
Unsigned(name, n, ss) ==
    [id |-> name, size |-> n, body |-> n, wellmade |-> TRUE, lfanew |-> 1,
     opt |-> 4, rvas |-> 2, image |-> 20, headers |-> 6 + Len(ss), sections |-> ss,
     va |-> 0, dirsize |-> 0, table |-> <<>>]

\* Signing pads the file and puts the certificates behind it.
Sign(u, t) ==
    LET end == u.body + ((-u.body) % Alignment) IN
    [u EXCEPT !.va = end, !.dirsize = 2 * Len(t), !.table = t,
              !.size = end + 2 * Len(t)]

Small(name, t) ==
    IF t = <<>> THEN Unsigned(name, 12, <<>>) ELSE Sign(Unsigned(name, 12, <<>>), t)

\* 1 - 10: signatures
\* 11 - 18: layouts
\* 19 - 25: files that cannot be loaded
\* 26 - 31: sizes that wrap around, and the last is whole though its sections
\*          are apart and overlap
MCFiles == <<
    Small("a", <<>>),
    Small("b", <<Signed(<<Leaf11>>)>>),
    Small("c", <<Signed(<<Leaf11>>), Signed(<<Leaf23>>)>>),
    Small("d", <<Signed(<<Leaf23>>)>>),
    Small("e", <<Signed(<<Early23>>), Foreign>>),
    Small("f", <<Signed(<<Weak23>>), Signed(<<Leaf23>>)>>),
    Small("g", <<Signed(<<Curve23>>)>>),
    Small("h", <<Signed(<<Weak23, Leaf11>>)>>),
    Small("i", <<Foreign, Signed(<<Other11>>)>>),
    Small("j", <<Signed(<<Leaf11>>), Endless, Signed(<<Leaf23>>)>>),
    Unsigned("k", 13, <<>>),
    Sign(Unsigned("k", 13, <<>>), <<Signed(<<Leaf23>>)>>),
    Unsigned("l", 13, <<Sec(11, 1), Sec(8, 3)>>),
    Sign(Unsigned("l", 13, <<Sec(11, 1), Sec(8, 3)>>), <<Foreign, Signed(<<Leaf23>>)>>),
    Sign(Unsigned("m", 14, <<Sec(9, 2), Bss, Sec(11, 3)>>), <<Signed(<<Leaf23>>)>>),
    Unsigned("n", 14, <<Sec(8, 2), Sec(12, 2)>>),
    Unsigned("o", 13, <<Sec(7, 6)>>),
    Unsigned("p", 13, <<Sec(10, 2), Sec(8, 2)>>),
    Small("q", <<Signed(<<Leaf23>>), Garbled>>),
    [Small("r", <<>>) EXCEPT !.headers = 4, !.rvas = 0, !.opt = 2],
    Unsigned("s", 13, <<Sec(5, 3)>>),
    Unsigned("t", 13, <<Sec(8, 6)>>),
    [Small("u", <<>>) EXCEPT !.wellmade = FALSE],
    Unsigned("v", 13, <<Sec(7, 3), Sec(10, 8)>>),
    [Small("w", <<>>) EXCEPT !.va = 14],
    [Unsigned("x", 12, <<Sec(15, 2)>>) EXCEPT !.headers = 14],
    [Small("y", <<>>) EXCEPT !.headers = 19],
    Unsigned("z", 13, <<Sec(15, 2)>>),
    [Small("aa", <<Endless>>) EXCEPT !.dirsize = 12],
    [Small("ab", <<Signed(<<Leaf23>>)>>) EXCEPT !.dirsize = 4],
    Sign(Unsigned("ac", 15, <<Sec(12, 3), Sec(9, 2), Sec(10, 1)>>), <<Signed(<<Leaf23>>)>>) >>

CertIn(c) == [kind |-> "cert", cert |-> c]
HashIn(a, n) ==
    [kind |-> "digest", alg |-> a, digest |-> [of |-> MCFiles[n].id, bytes |-> Expected(MCFiles[n])]]
Odd == [kind |-> "x509_sha256"]
BadCert == [kind |-> "badcert"]

There(e) == [kind |-> "there", entries |-> e]
Not(k) == [kind |-> k, entries |-> {}]

Usual == [db |-> There({CertIn(Ca11), CertIn(Ca23), Odd}), dbx |-> Not("missing")]

MCSystems == {
    Usual,
    [db |-> Not("unsupported"), dbx |-> Not("unsupported")],
    [db |-> There({CertIn(Ca11)}), dbx |-> There(Damaged)],
    [db |-> Not("fails"), dbx |-> There({HashIn("SHA256", 3)})]}

\* Every pair of signed files against databases that trust and revoke them;
\* pairs of files with a single signature when only the first counts; every
\* layout against its own digest; every option.
MCMenus == {
    [options |-> {"-d", "-x", "-e"}, files |-> 1 .. 10, most |-> 2, systems |-> {Usual},
     secdbs |-> {{CertIn(Leaf11), CertIn(Ca11)}, {CertIn(Ca23), HashIn("SHA256", 1)},
                 {CertIn(Ca11), HashIn("SHA512", 4), HashIn("SHA256", 6)}}],
    [options |-> {"-f"}, files |-> {2, 4, 5, 7, 9}, most |-> 2, systems |-> {Usual},
     secdbs |-> {{}}],
    [options |-> {"-d", "-X"}, files |-> 11 .. Len(MCFiles), most |-> 1, systems |-> {Usual},
     secdbs |-> {{HashIn("SHA384", n) : n \in {11, 13, 15}}}],
    [options |-> {"-d", "-D", "-s", "-x", "-X", "-S", "-e", "-f", "-i -"}, files |-> {3},
     most |-> 1, systems |-> MCSystems, secdbs |-> {{CertIn(Ca23)}, {BadCert}, Damaged}]}

\* A database of revoked certificates with that of a signer.
RevokedMenus == {
    [options |-> {"-x"}, files |-> {2, 9}, most |-> 2, systems |-> {Usual},
     secdbs |-> {{CertIn(Leaf11)}}]}
=============================================================================
