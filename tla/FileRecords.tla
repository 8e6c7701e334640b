------------------------------ MODULE FileRecords ------------------------------
(***************************************************************************)
(* File records over Modbus: readSlaveFile() and writeSlaveFile() build a  *)
(* request of several sub-requests, slavePDU() serves each through the     *)
(* onFile callback of its application, masterPDU() walks through the       *)
(* answer.  Every length on the way counts something else, which is why    *)
(* the bytes are looked at.  The API sends one sub-request at a time; the  *)
(* slave takes what any master sends.                                      *)
(***************************************************************************)
EXTENDS Integers, Sequences, SequencesExt

CONSTANTS FileLength,  \* registers of the slave's file
          Requests,    \* lists of sub-requests, records [at, n]: from where, how many
          LastRecord,  \* 0x270F
          Guard        \* bytes of the application's memory behind its buffer

VARIABLES file,   \* the bytes of the file, two for each register
          frame,  \* what is on its way: nothing, a request or an answer
          memory, \* the application's buffer, and what lies behind it
          result, \* what it is told
          asked,  \* what it asked for: history
          past    \* the file before the request: history

fileVars == <<file, frame, memory, result, asked, past>>

Silence == <<>>

(* The registers that the first sub-requests, or all, ask for together.     *)
FirstRegisters(subs) ==
    LET first[k \in 0..Len(subs)] == IF k = 0 THEN 0 ELSE first[k - 1] + subs[k].n IN first
Registers(subs) == FirstRegisters(subs)[Len(subs)]

(* A length is counted in an uint8_t, so that no length is ever too long;   *)
(* what does not fit into it ends in memory of somebody else, which is not  *)
(* modelled.                                                                *)
ASSUME FileRecordsAssumption ==
    /\ FileLength \in Nat \ {0} /\ LastRecord \in Nat /\ Guard \in Nat
    /\ Requests \subseteq Seq([at : Nat, n : Nat])
    /\ \A subs \in Requests : 2 + Len(subs) * 7 + 2 * Registers(subs) <= 255

(* The bytes of a file from a register on.                                  *)
Piece(bytes, sub) == SubSeq(bytes, 2 * sub.at + 1, 2 * (sub.at + sub.n))

(* New values for every byte that a request writes.                         *)
Data(subs) == [i \in 1..(2 * Registers(subs)) |-> 100 + i]

--------------------------------------------------------------------------------
FileInit ==
    /\ file = [i \in 1..(2 * FileLength) |-> i] /\ past = file
    /\ frame = Silence /\ memory = <<>> /\ result = "none"
    /\ asked = [op |-> "none", subs |-> <<>>]

FileIdle == frame = Silence /\ result = "none" /\ asked.op = "none"

(* readSlaveFile(): a header of two bytes, and seven for each sub-request.  *)
ReadFileRec(subs) ==
    /\ FileIdle /\ subs[1].at <= LastRecord /\ Len(subs) * 7 + 2 <= 256
    /\ frame' = [to |-> "slave", fn |-> "read", size |-> Len(subs) * 7, subs |-> subs]
    /\ memory' = [i \in 1..(2 * Registers(subs) + Guard) |-> 0]
    /\ asked' = [op |-> "read", subs |-> subs]
    /\ UNCHANGED <<file, result, past>>

(* writeSlaveFile(): the data follow each sub-request.                      *)
WriteFileRec(subs) ==
    /\ FileIdle /\ subs[1].at <= LastRecord /\ 2 + Len(subs) * 7 + 2 * Registers(subs) <= 256
    /\ frame' = [to |-> "slave", fn |-> "write", subs |-> subs, data |-> Data(subs),
                 size |-> Len(subs) * 7 + 2 * Registers(subs)]
    /\ asked' = [op |-> "write", subs |-> subs]
    /\ UNCHANGED <<file, memory, result, past>>

FileAnswer(ex, size, bytes) ==
    frame' = [to |-> "master", ex |-> ex, size |-> size, bytes |-> bytes]

(* The onFile callback that an application would give.                      *)
FileHas(sub) == sub.at + sub.n <= FileLength

(* bufSize, which the answer also carries as the count of its bytes.        *)
BufSize(subs) == 2 + 2 * (Registers(subs) + Len(subs))

AnsweredTight(sub) == <<2 * sub.n, 6>> \o Piece(file, sub)
Answered(sub) == <<2 * sub.n + 1, 6>> \o Piece(file, sub)

ServeRead ==
    /\ frame # Silence /\ frame.to = "slave" /\ frame.fn = "read"
    /\ LET subs == frame.subs
       IN IF frame.size \notin 7..245 THEN FileAnswer("EX_ILLEGAL_VALUE", 0, <<>>)
          ELSE IF \E i \in 1..Len(subs) : subs[i].at > LastRecord \/ ~ FileHas(subs[i])
          THEN FileAnswer("EX_ILLEGAL_ADDRESS", 0, <<>>)
          ELSE FileAnswer("none", BufSize(subs),
                      FlattenSeq([i \in 1..Len(subs) |-> Answered(subs[i])]))
    /\ past' = file
    /\ UNCHANGED <<file, memory, result, asked>>

(* The sub-requests are served one by one; the first that fails ends it, and *)
(* what was written before it stays.  An answer echoes the request.         *)
DataOfFirst(i) == SubSeq(frame.data, 1, 2 * frame.subs[i].n)
DataOf(i) == SubSeq(frame.data, 2 * FirstRegisters(frame.subs)[i - 1] + 1,
                                2 * FirstRegisters(frame.subs)[i])
Overwritten(bytes, sub, data) ==
    [b \in DOMAIN bytes |-> IF b \in (2 * sub.at + 1)..(2 * (sub.at + sub.n))
                            THEN data[b - 2 * sub.at] ELSE bytes[b]]
FailsWithin(k) == \E i \in 1..k : ~ FileHas(frame.subs[i])
FileAfter ==
    LET served[k \in 0..Len(frame.subs)] ==  \* after that many
            IF k = 0 THEN file
            ELSE IF FailsWithin(k) THEN served[k - 1]
            ELSE Overwritten(served[k - 1], frame.subs[k], DataOf(k))
    IN served[Len(frame.subs)]

ServeWrite ==
    /\ frame # Silence /\ frame.to = "slave" /\ frame.fn = "write"
    /\ IF frame.size \notin 9..251
       THEN FileAnswer("EX_ILLEGAL_VALUE", 0, <<>>) /\ UNCHANGED file
       ELSE /\ file' = FileAfter
            /\ FileAnswer(IF FailsWithin(Len(frame.subs)) THEN "EX_ILLEGAL_ADDRESS" ELSE "none",
                          0, <<>>)
    /\ past' = file
    /\ UNCHANGED <<memory, result, asked>>

(* masterPDU(): data and output move on together, data[0] bytes are copied, *)
(* one more than the record has; the last of them is the byte behind it on  *)
(* the line, and the one behind the buffer in memory.  A record of less     *)
(* than three registers is taken for a wrong one, after those before it     *)
(* have been copied.                                                        *)
Behind == 255
Copied(bytes, to, data, from, count) ==
    [i \in DOMAIN bytes |->
        IF i \in to..(to + count - 1)
        THEN IF from + i - to <= Len(data) THEN data[from + i - to] ELSE Behind
        ELSE bytes[i]]

Walk(data, bytes) ==
    LET walk[at \in 1..(Len(data) + 1)] ==  \* where the walk stands: <<memory, output, fine>>
            IF at = 1 THEN [memory |-> bytes, to |-> 1, at |-> 1, fine |-> TRUE]
            ELSE LET w == walk[at - 1]
                 IN IF ~ w.fine \/ w.at > Len(data) THEN w
                    ELSE IF data[w.at] \notin 7..245 \/ data[w.at + 1] # 6
                            \/ w.at + data[w.at] > Len(data) + 1
                    THEN [w EXCEPT !.fine = FALSE]
                    ELSE [memory |-> Copied(w.memory, w.to, data, w.at + 2, data[w.at]),
                          to |-> w.to + data[w.at] - 1, at |-> w.at + data[w.at] + 1,
                          fine |-> TRUE]
    IN walk[Len(data) + 1]

FileMasterPDU ==
    /\ frame # Silence /\ frame.to = "master"
    /\ IF frame.ex # "none" \/ asked.op = "write"
       THEN /\ result' = IF frame.ex # "none" THEN frame.ex ELSE "EX_SUCCESS"
            /\ UNCHANGED memory
       ELSE IF frame.size \notin 7..245
       THEN result' = "EX_ILLEGAL_VALUE" /\ UNCHANGED memory
       ELSE LET w == Walk(frame.bytes, memory)
            IN /\ memory' = w.memory
               /\ result' = IF w.fine THEN "EX_SUCCESS" ELSE "EX_ILLEGAL_VALUE"
    /\ frame' = Silence
    /\ UNCHANGED <<file, asked, past>>

FileLost ==
    /\ frame # Silence /\ frame' = Silence /\ result' = "EX_TIMEOUT"
    /\ UNCHANGED <<file, memory, asked, past>>

Forget ==
    /\ result # "none" /\ result' = "none" /\ memory' = <<>>
    /\ asked' = [op |-> "none", subs |-> <<>>] /\ past' = file
    /\ UNCHANGED <<file, frame>>

FileNext == \/ \E subs \in Requests : ReadFileRec(subs) \/ WriteFileRec(subs)
            \/ ServeRead \/ ServeWrite \/ FileMasterPDU \/ FileLost \/ Forget

FileSpec == FileInit /\ [][FileNext]_fileVars

--------------------------------------------------------------------------------
ReadIsExact ==
    SubSeq(memory, 1, 2 * Registers(asked.subs)) =
        FlattenSeq([i \in 1..Len(asked.subs) |-> Piece(file, asked.subs[i])])

(* Bytes of the file that a request names.                                  *)
NamedBytes(subs) ==
    UNION {(2 * subs[i].at + 1)..(2 * (subs[i].at + subs[i].n)) : i \in 1..Len(subs)}

WriteIsExact ==
    /\ \A b \in DOMAIN file : b \notin NamedBytes(asked.subs) => file[b] = past[b]
    /\ Piece(file, Last(asked.subs)) =
           SubSeq(Data(asked.subs), 2 * (Registers(asked.subs) - Last(asked.subs).n) + 1,
                  2 * Registers(asked.subs))

(* What an application reads is what the file held, register by register;   *)
(* what it has written is in the file, and nothing else has changed there;  *)
(* one sub-request that is refused has changed nothing.                     *)
TransferIsExact ==
    /\ result = "EX_SUCCESS" /\ asked.op = "read" => ReadIsExact
    /\ result = "EX_SUCCESS" /\ asked.op = "write" => WriteIsExact
    /\ result \notin {"none", "EX_SUCCESS", "EX_TIMEOUT"} /\ Len(asked.subs) = 1 =>
           file = past
================================================================================
