----------------------------- MODULE MCBootEntry -----------------------------
(* Machines, disks and calls for BootEntry.                                *)
EXTENDS BootEntry, TLC

Base == [driver |-> "", chain |-> << TRUE >>, pcidrv |-> "ahci", hid |-> "ok", uid |-> "num", fwpath |-> FALSE,
         port |-> "ok", eui |-> "ok", uuid |-> FALSE, scsidev |-> TRUE, sasHosts |-> {}, expanders |-> {}, sasaddr |-> TRUE]
Blk(link, major, minor, number) == [kind |-> "blk", link |-> link, major |-> major, minor |-> minor, number |-> number]
\* A disk and its first partition.
Nodes(link, d, p, major) == (d :> Blk(Append(link, d), major, 0, -1)) @@ (p :> Blk(link \o << d, p >>, major, 1, 1))
Hw(m, link, d, p, major, truth) == [m |-> m @@ [node |-> Nodes(link, d, p, major)], disk |-> d, dev |-> p, truth |-> truth]

Pci == << "devices", "pciroot", "pci" >>
Sata == Hw(Base, Pci \o << "ata", "host", "target", "scsi", "block" >>, "sda", "sda1", 8, << "acpi", "pci", "sata" >>)
Hardware == {
  Hw([Base EXCEPT !.uid = "str"], << "devices", "pciroot", "pci", "pci", "host", "target", "scsi", "block" >>, "sda", "sda1", 8,
     << "acpi_ex", "pci", "pci", "scsi" >>),
  Hw([Base EXCEPT !.sasHosts = {0}], Pci \o << "host", "port2", "end2", "target", "scsi", "block" >>, "sda", "sda1", 8, << "acpi", "pci", "sas" >>),
  Hw([Base EXCEPT !.expanders = {0}], Pci \o << "host", "port2", "expander", "port3", "end3", "target", "scsi", "block" >>, "sda", "sda1", 8,
     << "acpi", "pci", "sas" >>),
  Hw([Base EXCEPT !.pcidrv = "ata_x"], Pci \o << "ata", "host", "target", "scsi", "block" >>, "sda", "sda1", 8, << "acpi", "pci", "atapi" >>),
  Hw(Base, Pci \o << "nvme", "nvme0" >>, "nvme0n1", "nvme0n1p1", 259, << "acpi", "pci", "nvme" >>),
  Hw([Base EXCEPT !.eui = "short"], Pci \o << "nvme", "nvme0" >>, "nvme0n1", "nvme0n1p1", 259, <<>>),
  Hw(Base, Pci \o << "virtio", "block" >>, "vda", "vda1", 252, << "acpi", "pci" >>),
  Hw(Base, Pci \o << "x", "block" >>, "i2oa", "i2oa1", 80, << "acpi", "pci" >>),
  Hw([Base EXCEPT !.fwpath = TRUE], << "devices", "platform", "acpi", "mmc_host", "mmc0", "mmc0:1", "block" >>, "mmcblk0", "mmcblk0p1", 179, <<>>),
  Hw([Base EXCEPT !.hid = "noent"], << "devices", "platform", "acpi", "virtio", "block" >>, "vda", "vda1", 252, << "acpi" >>),
  Hw(Base, << "devices", "platform", "soc", "x", "mmc_host", "mmc0", "mmc0:1", "block" >>, "mmcblk0", "mmcblk0p1", 179, << "abbrev" >>),
  Hw(Base, << "devices", "virtual", "nvme-subsystem", "nvme-subsys" >>, "nvme0n1", "nvme0n1p1", 259, << "abbrev" >>),
  Hw(Base, << "devices", "virtual", "block" >>, "dm", "dm1", 253, << "abbrev" >>) }

\* Disks of seven blocks with two entries.
Cell(s, g) == [start |-> s, end |-> s, guid |-> g]
A == << Cell(3, 11), Cell(4, 12) >>
B == << Cell(4, 21), Cell(3, 22) >>
Hdr(my, alt, pte, cells) == [t |-> "hdr", hsz |-> 92, crc |-> TRUE, my |-> my, alt |-> alt, pte |-> pte, fu |-> 3, lu |-> 4, n |-> 2, sz |-> 128, ecrc |-> cells]
Ent(cells) == [t |-> "ent", cells |-> cells]
Nothing == [t |-> "none"]
Mbr(ee, sig) == [t |-> "mbr", magic |-> TRUE, ee |-> ee, sig |-> sig, parts |-> [i \in 1..4 |-> [start |-> 2 + i, size |-> i]]]
Gpt(cells) == << Hdr(1, 6, 2, cells), Ent(cells), Nothing, Nothing, Ent(cells), Hdr(6, 1, 5, cells) >>
WithMbr(mbr, gpt) == [l \in 0..6 |-> IF l = 0 THEN mbr ELSE gpt[l]]
Good == WithMbr(Mbr(TRUE, 0), Gpt(A))
Bad(d, L) == [l \in DOMAIN d |-> IF l \notin L THEN d[l] ELSE IF d[l].t = "hdr" THEN [d[l] EXCEPT !.crc = FALSE] ELSE Ent(<< Cell(9, 99), Cell(9, 99) >>)]
Plain(sig) == WithMbr(Mbr(FALSE, sig), [l \in 1..6 |-> Nothing])
Blank == WithMbr([Mbr(FALSE, 0) EXCEPT !.magic = FALSE], [l \in 1..6 |-> Nothing])

NoEdits == [l \in {} |-> Nothing]
\* The alternate table lags behind.
Lagging == [Good EXCEPT ![5] = Ent(B), ![6] = Hdr(6, 1, 5, B)]
Disks == { Good, Bad(Good, {1}), Bad(Good, {2}), Bad(Good, {1, 6}), Bad(Good, {2, 5}), Bad(Lagging, {1}), Lagging,
           [Good EXCEPT ![0] = Mbr(FALSE, 0)], [Good EXCEPT ![1].alt = 5], Plain(5), Plain(0), Blank }
Table(g) == [l \in {1, 2, 5, 6} |-> g[l]]
Edited == { << Good, Table(Gpt(B)) >>, << Lagging, Table(Gpt(B)) >>,
            << Plain(0), [l \in {0} |-> [Mbr(FALSE, 0) EXCEPT !.parts[1].start = 9]] >>,
            << Plain(0), [l \in {0, 1, 2} |-> IF l = 0 THEN Mbr(TRUE, 0) ELSE Gpt(A)[l]] >> }

Mounts == << [dev |-> "tmpfs", dir |-> << "/" >>], [dev |-> "part", dir |-> << "/", "boot" >>], [dev |-> "part", dir |-> << "/" >>] >>
Case(hw, d, e, entry, on, part, o) ==
  [m |-> hw.m, disk |-> d, edits |-> e, entry |-> entry, node |-> hw.disk, part |-> part, opts |-> o, rel |-> 2, truth |-> hw.truth,
   mounts |-> [i \in 1..Len(Mounts) |-> IF Mounts[i].dev = "part" THEN [Mounts[i] EXCEPT !.dev = on] ELSE Mounts[i]],
   file |-> [path |-> << "/", "boot", "/", "x" >>, dev |-> on]]
Options == {{"NONE"}, {"HD"}, {"FILE"}, {"EDD10"}, {"HD", "IGNORE_PMBR"}, {"HD", "WRITE_SIG"}, {"NONE", "WRITE_SIG"}}

MCCases ==
  {Case(Sata, d, NoEdits, "esp", Sata.dev, p, o) : d \in Disks, p \in {-1, 2}, o \in Options}
  \cup {Case(Sata, d, NoEdits, "esp", Sata.dev, p, o) : d \in Disks, p \in {0, 3, 5}, o \in {{"NONE"}, {"HD", "WRITE_SIG"}}}
  \cup {Case(Sata, e[1], e[2], "file", Sata.dev, 0, o) : e \in Edited, o \in {{"NONE"}, {"HD"}, {"HD", "IGNORE_PMBR"}, {"HD", "WRITE_SIG"}}}
  \cup {Case(Sata, e[1], e[2], "esp", Sata.dev, -1, {"HD", "WRITE_SIG"}) : e \in Edited}
  \cup UNION {{Case(hw, Good, NoEdits, "file", x, 0, o) : x \in {hw.dev, hw.disk}, o \in {{"NONE"}, {"HD"}}} : hw \in Hardware}
  \cup {Case(Sata, Good, NoEdits, "ipv4", Sata.dev, 0, {})}

MCSlack == {0, 3, -1, -4, -10, -40}
\* No description, in a buffer that was cleared and in one where a reader finds
\* the upper half of an ACPI node's number first; a description.
Opt(desc, held, kind, n) == [desc |-> desc, held |-> held, kind |-> kind, n |-> n]
MCOptSizes == {Opt(0, 0, "utf8", 0), Opt(0, 6, "utf8", 0), Opt(0, 6, "ucs2", 9), Opt(3, 0, "utf8", 5), Opt(3, 6, "ucs2", 4)}
MCOthers == { <<>>, << End >>, << MakeMacAddr, End >>, << MakeMacAddr, [k |-> "endinst", len |-> 4], MakePci, End >>, << [k |-> "pci", len |-> 2], End >> }
=============================================================================
