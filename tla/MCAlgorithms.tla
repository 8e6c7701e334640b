------------------------------ MODULE MCAlgorithms ------------------------------
(***************************************************************************)
(* Five parts of the program that have nothing to do with each other, each *)
(* checked by itself: the part is chosen in the first state, and the       *)
(* variables of the others stand still.                                    *)
(***************************************************************************)
EXTENDS CalendarWalk, StationClock, RtuFrame, FileRecords, ModbusLoop

VARIABLE part

allVars == <<part, walkVars, clockVars, frameVars, fileVars, loopVars>>

(* Every year; the two sides of noon and of midnight. *)
MCYears == 0..99
MCMoments == <<0, 43199, 43200, 86399>>

(* The end of a year, a leap day, the tens of every field.  A stack that    *)
(* holds all ones, and one that holds something like a date.                *)
MCChipDates == {DateOf(2023, 12, 31, 23, 59, 59), DateOf(2024, 2, 29, 0, 0, 0),
                DateOf(2099, 10, 31, 12, 30, 30)}
MCBuildDate == DateOf(2023, 11, 9, 8, 7, 6)
MCJunk == {<<255, 255, 255, 255, 255, 255>>, <<89, 35, 1, 49, 18, 36>>}

(* Single bits, bursts of eight bits, and bursts over a byte's end. *)
MCBytes == {0, 1, 127, 200}
MCDamages == {1, 8, 16, 128, 255, 24, 129}
MCBauds == {300, 9600, 19200, 115200}

(* One sub-request within the file, at its end and beyond it, of a length   *)
(* that masterPDU takes and one that it does not; and some pairs.           *)
MCRequests ==
    {<<s>> : s \in [at : {0, 1, 3}, n : {1, 3, 4}]}
        \cup {<<s, u>> : s, u \in [at : {0, 2}, n : {3, 4}]}

(* Words of two bytes with two bits each, so that a full frame has ten bytes *)
(* instead of 256 (with two words written, as 125 are 256 bytes), and banks  *)
(* in which an address exists on the slave only, on the master only, on both *)
(* and on neither.                                                           *)
MCExisting == {"HREG", "IREG"} \X {0, 1} \cup {"COIL", "ISTS"} \X {0, 1, 2}
MCOwnRegisters ==
    {<<"HREG", 0>>, <<"HREG", 1>>, <<"IREG", 1>>, <<"IREG", 2>>,
     <<"COIL", 0>>, <<"COIL", 1>>, <<"COIL", 2>>, <<"ISTS", 0>>}
MCWords == {{}, {0, 3}}
MCLists == UNION {[1..n -> MCWords] : n \in 1..3}
MCMasks == {{}, {0, 1}}

MCInit ==
    /\ part \in {"calendar", "clock", "frame", "files", "loop"}
    /\ IF part = "calendar" THEN WalkInit
       ELSE /\ dateTime = DateOf(2000, 1, 1, 0, 0, 0) /\ dateBefore = dateTime
            /\ calendarDay = <<0, 1, 1>> /\ calendarDays = 0 /\ moment = 1
    /\ ClockInit /\ (part # "clock" => chip = PowerUp)
    /\ FrameInit /\ (part # "frame" => baud = 9600)
    /\ FileInit
    /\ LoopInit /\ (part # "loop" => regs = Pattern(Existing, 0))

MCNext ==
    /\ UNCHANGED part
    /\ \/ part = "calendar" /\ WalkNext /\ UNCHANGED <<clockVars, frameVars, fileVars, loopVars>>
       \/ part = "clock" /\ ClockNext /\ UNCHANGED <<walkVars, frameVars, fileVars, loopVars>>
       \/ part = "frame" /\ FrameNext /\ UNCHANGED <<walkVars, clockVars, fileVars, loopVars>>
       \/ part = "files" /\ FileNext /\ UNCHANGED <<walkVars, clockVars, frameVars, loopVars>>
       \/ part = "loop" /\ LoopNext /\ UNCHANGED <<walkVars, clockVars, frameVars, fileVars>>

MCSpec == MCInit /\ [][MCNext]_allVars
================================================================================
