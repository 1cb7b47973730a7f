---------------------------------- MODULE Redaction ----------------------------------
(***************************************************************************)
(* What the sanitiser (scripts/sanitise_rinnai_capture.py) makes of a       *)
(* private capture: which captures it refuses, and the synthetic stream     *)
(* fixture and metadata it builds of the others.                            *)
(*                                                                         *)
(* A payload is the sequence of its leaves in document order, each with its *)
(* full path (group, keys) and its value; every group is an item of its     *)
(* own.  Values are members of small sets, one per kind the sanitiser tells *)
(* apart; a value that is replaced becomes a pair of what replaces it and   *)
(* what that depends on.                                                    *)
(***************************************************************************)
EXTENDS Naturals, Sequences, FiniteSets

CONSTANTS Captures,      \* what raw files hold: sequences of frames [leaves, length]
          Letters, Numbers, Times, Days, Codes, Ints,  \* the kinds of values; others are text
          Sentinel,      \* _MT_SENTINEL, one of the Numbers
          PathSymbols,   \* _PATH_SYMBOLS, as pairs of a path and a letter
          ZoneKeys,      \* the keys _ZONE_KEY_PATTERN matches, a function to their letters
          SensedKey,     \* the key Z?S of each zone letter
          InstalledKey,  \* the key Z?IS of each zone letter
          UnsafeKeys     \* keys _KEY_PATTERN does not match

Flags == {"Y", "N"}  \* _GLOBAL_SYMBOLS
Kinds == {Letters, Numbers, Times, Days, Codes, Ints}

ASSUME KindsAreDistinct == /\ \A K, L \in Kinds : K = L \/ K \cap L = {}
                           /\ Flags \subseteq Letters /\ Sentinel \in Numbers
                           /\ \A K \in Kinds : "" \notin K
ASSUME CapturesAreFrames ==
    \A c \in Captures : \A i \in DOMAIN c :
        /\ c[i].length \in Nat
        /\ \A j \in DOMAIN c[i].leaves : c[i].leaves[j].path # << >>
ASSUME ZonesHaveKeys == \A k \in DOMAIN ZoneKeys : ZoneKeys[k] \in DOMAIN SensedKey \cap DOMAIN InstalledKey

NoZone == "no zone"

---------------------------------------------------------------------------------------
(* sanitise_payload *)

Key(path) == path[Len(path)]

\* _zone_letter_for: the innermost zone key on the path.
ZoneLetter(path) ==
    LET at == {i \in DOMAIN path : path[i] \in DOMAIN ZoneKeys}
    IN  IF at = {} THEN NoZone
        ELSE ZoneKeys[path[CHOOSE i \in at : \A j \in at : j <= i]]

\* Slip: a symbol approved at one path is approved wherever the key is the same.
ApprovedByKeySlip(path, letter) ==
    letter \in Flags \/ \E p \in PathSymbols : Key(p[1]) = Key(path) /\ p[2] = letter

Approved(path, letter) == letter \in Flags \/ <<path, letter>> \in PathSymbols

\* The key of a leaf whose number is neither a temperature nor a set point.
Generic(leaf) == leaf.value \in Numbers /\ Key(leaf.path) \notin {"MT", "SP"}

\* The keys of these numbers, at their places in the document.
GenericKeys(leaves) == [i \in {j \in DOMAIN leaves : Generic(leaves[j])} |-> Key(leaves[i].path)]

\* generic_numeric_keys: how many such keys come before this one.
GenericIndex(keys, key) ==
    LET first(k) == CHOOSE i \in DOMAIN keys :
                       keys[i] = k /\ \A j \in DOMAIN keys : keys[j] = k => i <= j
    IN  Cardinality({k \in {keys[i] : i \in DOMAIN keys} : first(k) < first(key)})

Kept(v) == <<"kept", v>>
Rejected == <<"rejected", "">>

\* What a number becomes.
SyntheticNumber(leaves, leaf) ==
    LET key == Key(leaf.path)
    IN  CASE key = "MT" /\ leaf.value = Sentinel -> Kept(Sentinel)
          [] key = "MT" /\ leaf.value # Sentinel -> <<"temperature", ZoneLetter(leaf.path)>>
          [] key = "SP" -> <<"set point", ZoneLetter(leaf.path)>>
          [] OTHER -> <<"number", GenericIndex(GenericKeys(leaves), key)>>

\* The name of a zone: a zone key right under CFG.
NamesZone(path) ==
    Len(path) > 1 /\ path[Len(path) - 1] = "CFG" /\ Key(path) \in DOMAIN ZoneKeys

\* _sanitise_value; a leaf right under its item is no group.
SanitiseValue(leaves, leaf) ==
    LET v == leaf.value
    IN  CASE Len(leaf.path) = 1 -> Rejected
          [] Len(leaf.path) > 1 /\ v \in Ints -> <<"int", "">>
          [] Len(leaf.path) > 1 /\ v \in Letters ->
                IF Approved(leaf.path, v) THEN Kept(v) ELSE Rejected
          [] Len(leaf.path) > 1 /\ v = "" -> Kept("")
          [] Len(leaf.path) > 1 /\ v \in Numbers -> SyntheticNumber(leaves, leaf)
          [] Len(leaf.path) > 1 /\ v \in Times -> <<"time", "">>
          [] Len(leaf.path) > 1 /\ v \in Days -> <<"day", "">>
          [] OTHER -> IF NamesZone(leaf.path) THEN <<"name", ZoneLetter(leaf.path)>>
                      ELSE IF v \in Codes THEN <<"code", "">> ELSE Rejected

Sanitised(leaves) == [i \in DOMAIN leaves |-> [path |-> leaves[i].path,
                                              value |-> SanitiseValue(leaves, leaves[i])]]

\* sanitise_payload raises no SanitisationError.
Sanitisable(leaves) ==
    \A i \in DOMAIN leaves : /\ SanitiseValue(leaves, leaves[i]) # Rejected
                             /\ \A k \in DOMAIN leaves[i].path : leaves[i].path[k] \notin UnsafeKeys

---------------------------------------------------------------------------------------
(* analyse_capture and build_fixture_files *)

AllLeaves(capture) ==
    UNION {{capture[i].leaves[j] : j \in DOMAIN capture[i].leaves} : i \in DOMAIN capture}

Groups(leaves) == {leaf.path[1] : leaf \in leaves}

Richer(f, g) ==
    LET items(h) == Cardinality({h.leaves[i].path[1] : i \in DOMAIN h.leaves})
    IN  items(f) > items(g) \/ (items(f) = items(g) /\ f.length > g.length)

\* best_payload: the first of the richest ones.
Best(capture) ==
    capture[CHOOSE i \in DOMAIN capture :
               /\ \A j \in DOMAIN capture : ~Richer(capture[j], capture[i])
               /\ \A j \in 1 .. i - 1 : Richer(capture[i], capture[j])].leaves

\* The structure of every payload of a capture, below the groups too, and the best payload.
Structure(capture) ==
    LET leaves == AllLeaves(capture)
    IN  [groups |-> Groups(leaves),
         paths |-> UNION {{SubSeq(l.path, 1, n) : n \in 2 .. Len(l.path)} : l \in leaves},
         zones |-> UNION {{ZoneKeys[l.path[n]] :
                              n \in {i \in 2 .. Len(l.path) : l.path[i] \in DOMAIN ZoneKeys}}
                             : l \in leaves},
         best |-> Best(capture)]

Consistent(one, two) ==
    one.groups = two.groups /\ one.paths = two.paths /\ one.zones = two.zones

\* No frame, or an unsafe key below a group.
Unreadable(capture) ==
    \/ capture = << >>
    \/ \E l \in AllLeaves(capture) : \E n \in 2 .. Len(l.path) : l.path[n] \in UnsafeKeys

\* The leaf _synthetic_mt_for_meta reads for a zone: the first temperature with a reading.
MeasuredAt(synthetic, zone) ==
    {i \in DOMAIN synthetic :
        /\ Len(synthetic[i].path) = 3
        /\ synthetic[i].path[2] = SensedKey[zone] /\ synthetic[i].path[3] = "MT"
        /\ synthetic[i].value \notin {Kept(Sentinel), <<"int", "">>}}

Measured(synthetic, zone) ==
    LET at == MeasuredAt(synthetic, zone)
    IN  IF at = {} THEN <<"none", "">>
        ELSE synthetic[CHOOSE i \in at : \A j \in at : i <= j].value

\* The metadata document: its structure is that of all payloads, the rest of the best one.
Metadata(synthetic, structure) ==
    [groups |-> structure.groups,
     zones |-> [z \in structure.zones |->
                  [installed |-> \E i \in DOMAIN synthetic :
                                    /\ Len(synthetic[i].path) = 3
                                    /\ synthetic[i].path[2] = "CFG"
                                    /\ synthetic[i].path[3] = InstalledKey[z]
                                    /\ synthetic[i].value = Kept("Y"),
                   measured |-> Measured(synthetic, z)]]]

Fixture(synthetic, structure) ==
    [stream |-> synthetic, metadata |-> Metadata(synthetic, structure)]

\* int() of something that is no number.
BuildRaises(synthetic, structure) ==
    \E zone \in structure.zones : Measured(synthetic, zone)[1] \notin {"none", "temperature"}

---------------------------------------------------------------------------------------
(* What a fixture may depend on *)

\* What may be told of a value: an allowed symbol itself, of anything else its kind.
Told(leaf) ==
    LET v == leaf.value
    IN  IF \/ v \in Flags \/ <<leaf.path, v>> \in PathSymbols \/ v = ""
           \/ v = Sentinel /\ Key(leaf.path) = "MT"
        THEN [path |-> leaf.path, symbol |-> {v}, kind |-> {}]
        ELSE [path |-> leaf.path, symbol |-> {}, kind |-> {K \in Kinds : v \in K}]

Public(structure) ==
    [structure EXCEPT !.best = [i \in DOMAIN structure.best |-> Told(structure.best[i])]]
=======================================================================================
