---------------------------------- MODULE Names ----------------------------------
(***************************************************************************)
(* The name space (device/nam): a table of prefixes, each with what takes  *)
(* its place and the device that is to open the rest.  namOpen() maps a    *)
(* name with the first prefix of the table that matches and opens the      *)
(* device it comes to; nothing but mount() changes the table.              *)
(*                                                                         *)
(* A name is a sequence of parts; lengths are counted in parts.            *)
(***************************************************************************)
EXTENDS Integers, SequencesExt

CONSTANTS
    NmDevices,      \* devices of devtab: their names in lower case
    NmMounts,       \* prefixes that processes mount: [prefix, replace, dev]
    NmNames,        \* names that are opened
    NM_PRELEN, NM_REPLLEN, NM_MAXLEN, NNAMES,
    CharMax         \* the largest length a char holds

VARIABLE nametab    \* nnames is its length

nmVars == <<nametab>>

NAMESPACE == "namespace"
NoName == [dev |-> "SYSERR", new |-> <<>>]

\* The limits leave place for the null byte.
Fits(name, len) == Len(name) < len

Mountable(tab, e) ==
    /\ Fits(e.prefix, NM_PRELEN) /\ Fits(e.replace, NM_REPLLEN)
    /\ e.dev # "SYSERR" /\ Len(tab) < NNAMES

Entry(prefix, replace, dev) == [prefix |-> prefix, replace |-> replace, dev |-> dev]

\* The prefixes that namInit() mounts after the devices; those of a file system that is not
\* configured, and "/dev/", are refused, because their device is SYSERR.
Defaults(rfilesys, lfilesys) ==
    << Entry(<<"/", "dev/", "null">>, <<>>, "nulldev"),
       Entry(<<"/", "remote/">>, <<"remote:">>, rfilesys),
       Entry(<<"/", "local/">>, <<>>, lfilesys),
       Entry(<<"/", "dev/">>, <<>>, "SYSERR"),
       Entry(<<"~/">>, <<>>, lfilesys),
       Entry(<<"/">>, <<"root:">>, rfilesys),
       Entry(<<>>, <<>>, lfilesys) >>

\* namInit(): mount() one after the other.
NmInit ==
    \E rfilesys \in {"SYSERR", "rfilesys"}, lfilesys \in {"SYSERR", "lfilesys"} :
      LET devs == [i \in DOMAIN NmDevices |-> Entry(<<"/", "dev/", NmDevices[i]>>, <<>>, NmDevices[i])]
      IN  nametab = FoldLeft(LAMBDA tab, e : IF Mountable(tab, e) THEN Append(tab, e) ELSE tab,
                             <<>>, devs \o Defaults(rfilesys, lfilesys))

\* What newname holds when nothing but the replacement was copied to it, without an end.
Endless == <<"endless">>

\* namrepl(); the length of the name, with its null byte, is a char (nammap.c:55,88), which is
\* negative when it is too large: nothing of the name is copied then.
Namrepl(tab, name) ==
    LET i    == SelectInSeq(tab, LAMBDA e : IsPrefix(e.prefix, name))
        rest == SubSeq(name, Len(tab[i].prefix) + 1, Len(name))
    IN  IF i # 0 /\ Len(name) + 1 > CharMax THEN [dev |-> tab[i].dev, new |-> Endless]
        ELSE IF i # 0 /\ Fits(tab[i].replace \o rest, NM_MAXLEN)
        THEN [dev |-> tab[i].dev, new |-> tab[i].replace \o rest]
        ELSE NoName

\* nammap(): when the name comes to the name space again, the same name is mapped again.
Nammap(tab, name) ==
    LET r == Namrepl(tab, name)
    IN  IF Fits(name, NM_MAXLEN) /\ r.dev # NAMESPACE THEN r ELSE NoName

\* Mutant of Mount: the new prefix is looked at first.
MountFirst(e) == Mountable(nametab, e) /\ nametab' = <<e>> \o nametab

\* mount()
Mount(e) == Mountable(nametab, e) /\ nametab' = Append(nametab, e)

NmNext == \E e \in NmMounts : Mount(e)

NmSpec == NmInit /\ [][NmNext]_nmVars

-----------------------------------------------------------------------------
\* What opens as a device or file does so under a name that ends, and keeps doing so
\* whatever is mounted later: no mount takes a name away from the first prefix that matches
\* (nammap.c:65-81, mount.c:36).
MountsKeepNames ==
    [][\A n \in NmNames :
         LET opened == Nammap(nametab, n)
         IN  opened # NoName => opened.new # Endless /\ Nammap(nametab, n)' = opened]_nmVars

\* "repeatedly substitute the name prefix until a non-namespace device is reached or an
\* iteration limit is exceeded" (nammap.c:28-29).
MapsThrough == \A n \in NmNames :
    LET step[k \in 0 .. Len(nametab)] ==
            IF k = 0 THEN [dev |-> NAMESPACE, new |-> n]
            ELSE IF step[k - 1].dev = NAMESPACE THEN Namrepl(nametab, step[k - 1].new) ELSE step[k - 1]
    IN  step[Len(nametab)].dev # NAMESPACE => Nammap(nametab, n).dev = step[Len(nametab)].dev
==================================================================================
