--------------------------- MODULE MCStatusModel ---------------------------
(* A small instance: two modes, two zones of which one is talked about,    *)
(* one capability, and frames that carry nothing, one group or two.        *)
EXTENDS StatusModel

MCModes == {"H", "C"}
MCZones == {"A", "B"}
MCFlagged == {"heater"}

\* What an item can say of zone A; zone B is never mentioned.
About(x, other) == [z \in MCZones |-> IF z = "A" THEN x ELSE other]

SystemValue(mode, heater, name, fault) ==
  [mode |-> mode, available |-> [c \in MCFlagged |-> heater],
   labels |-> [l \in MCZones \cup {Unit} |-> IF l = "B" THEN None ELSE name], fault |-> fault]

ModeValue(installed, reading) ==
  [installed |-> About(installed, "-"), reading |-> About(reading, Absent)]

\* Full SYST groups in both modes, a partial one, one in a mode without a
\* group, one with a blank name and a withdrawn capability, and a bare one.
SystemItems ==
  {[group |-> System, value |-> v] :
     v \in {SystemValue("H", "Y", "bedroom", "N"), SystemValue("C", "-", None, "Y"),
            SystemValue(None, "N", Blank, "-"), SystemValue("R", "-", "study", "-"), Opaque}}

ModeItems ==
  {[group |-> "H", value |-> v] : v \in {ModeValue("Y", 223), ModeValue("?", Sentinel), Opaque}}
    \cup {[group |-> "C", value |-> v] : v \in {ModeValue("-", 180), ModeValue("Y", Opaque), ModeValue("N", Absent)}}

Objective(items) == {item \in items : item.value # Opaque}

\* Every group alone, SYST before a mode group, and two mode groups first.
Payloads ==
  {<<>>, <<[group |-> "unknown", value |-> Opaque]>>}
    \cup {<<x>> : x \in SystemItems \cup ModeItems}
    \cup {<<x, y>> : x \in Objective(SystemItems), y \in Objective(ModeItems)}
    \cup {<<y, z, x>> : x \in {s \in Objective(SystemItems) : s.value.mode = "C"},
                        y, z \in {i \in Objective(ModeItems) : i.group = "C"}}

MCFrames == {[sequence |-> Len(p), payload |-> p] : p \in Payloads}
=============================================================================
