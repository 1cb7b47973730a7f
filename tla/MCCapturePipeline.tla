------------------------------ MODULE MCCapturePipeline ------------------------------
(***************************************************************************)
(* Captures of up to two frames: for every rule of the sanitiser a frame    *)
(* that meets it and one that has another private value in the same place.  *)
(***************************************************************************)
EXTENDS CapturePipeline

MCLetters == {"Y", "N", "C", "P", "F"}
MCNumbers == {"999", "215", "7"}
MCTimes == {"06:30", "22:15"}
MCDays == {"TUE", "SUN"}
MCCodes == {"Q4", "AB"}
MCInts == {"1", "2"}
MCPathSymbols == {<<<<"SYST", "OSS", "ST">>, "C">>, <<<<"SYST", "OSS", "ST">>, "P">>,
                  <<<<"HGOM", "OOP", "ST">>, "F">>}
MCZoneKeys == [ZA |-> "A", ZAS |-> "A", ZAO |-> "A", ZAIS |-> "A"]
MCSensedKey == [A |-> "ZAS"]
MCInstalledKey == [A |-> "ZAIS"]
MCUnsafeKeys == {"bad key"}

Leaf(path, value) == [path |-> path, value |-> value]
Frame(leaves, length) == [leaves |-> leaves, length |-> length]

\* Two groups: a controller state, a zone's name and its presence.
House(name, length) == Frame(<<Leaf(<<"SYST", "OSS", "ST">>, "C"),
                               Leaf(<<"HGOM", "CFG", "ZA">>, name),
                               Leaf(<<"HGOM", "CFG", "ZAIS">>, "Y")>>, length)

\* Numbers of every kind.
Readings(measured, wanted, count, also) ==
    Frame(<<Leaf(<<"HGOM", "ZAS", "MT">>, measured), Leaf(<<"HGOM", "ZAO", "SP">>, wanted),
            Leaf(<<"HGOM", "OOP", "SC">>, count), Leaf(<<"HGOM", "OOP", "DT">>, also),
            Leaf(<<"HGOM", "CFG", "SC">>, also)>>, 5)

\* A time, a day, a short code and an integer.
Schedule(time, day, short, int) ==
    Frame(<<Leaf(<<"HGOM", "ZAS", "TM">>, time), Leaf(<<"HGOM", "ZAS", "DY">>, day),
            Leaf(<<"HGOM", "APS", "XX">>, short), Leaf(<<"HGOM", "APS", "NC">>, int)>>, 4)

Symbol(path, letter) == Frame(<<Leaf(path, letter)>>, 1)

Common == {Frame(<< >>, 0), House("bedroom", 3), House("study", 3), House("Q4", 2),
           Readings("215", "7", "7", "215"), Readings("7", "215", "999", "7"),
           Readings("999", "7", "7", ""),
           Symbol(<<"HGOM", "OOP", "ST">>, "C"), Symbol(<<"HGOM", "OOP", "ST">>, "P")}

Rare == {Schedule("06:30", "TUE", "Q4", "1"), Schedule("22:15", "SUN", "AB", "2"),
         Readings("", "7", "7", "7"), Symbol(<<"HGOM", "OOP", "ST">>, "F"),
         Symbol(<<"SYST", "OSS", "ST">>, "P"), Symbol(<<"HGOM", "bad key">>, "Y"),
         Symbol(<<"bad key", "OSS">>, "Y"), Symbol(<<"HGOM">>, "Y"),
         Symbol(<<"HGOM", "OOP", "XX">>, "some text")}

MCCaptures == {<< >>} \cup {<<f>> : f \in Common \cup Rare}
                 \cup {<<f, House("study", 3)>> : f \in Common \cup Rare}
                 \cup {<<House("study", 3), f>> : f \in Common}

MCVerifyCaptures == {<< >>, <<House("study", 3)>>}
=======================================================================================
