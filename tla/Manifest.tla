------------------------------ MODULE Manifest ------------------------------
(***************************************************************************)
(* The version manifest (.gameindex): GameIndex::build, encode and decode. *)
(* A manifest is a sequence of fields, each tagged with what it was        *)
(* written as: a number, a letter of a name or a hash.  A hash is a record *)
(* of what was hashed, so different contents have different hashes.  A     *)
(* field that is read as something else than it was written as is garbage, *)
(* which the model takes for a failed read.                                *)
(***************************************************************************)
EXTENDS Integers, Sequences, SequencesExt

CONSTANT NameWidth      \* values of the name length field: 2^16 in the code

Num(n) == [kind |-> "num", value |-> n]
Letter(l) == [kind |-> "letter", value |-> l]
Hash(x) == [kind |-> "hash", value |-> x]
Magic == [kind |-> "magic", value |-> "BLZGI"]
FormatVersion == 1
Bad == [ok |-> FALSE]

(* chunk_file and file_hash: the chunks of a file, and its whole content. *)
FileEntry(name, content) == [name |-> name, fileHash |-> Hash(content),
                             chunks |-> [i \in DOMAIN content |-> Hash(content[i])]]

EncodeFile(f) ==
    <<Num(Len(f.name) % NameWidth)>> \o [i \in DOMAIN f.name |-> Letter(f.name[i])]
    \o <<f.fileHash, Num(Len(f.chunks))>>
    \o FlattenSeq([i \in DOMAIN f.chunks |-> <<f.chunks[i], Num(1)>>])

EncodeBody(files) ==
    <<Magic, Num(FormatVersion), Num(0), Num(Len(files))>>
    \o FlattenSeq([i \in DOMAIN files |-> EncodeFile(files[i])])

(* encode: the body and its hash. *)
Encode(files) == Append(EncodeBody(files), Hash(EncodeBody(files)))

(* One file is read at st.pos: read_exact fails past the end of the body. *)
ReadFile(body, st) ==
    LET has(p, kind) == p <= Len(body) /\ body[p].kind = kind
        n == body[st.pos].value
        count == body[st.pos + n + 2].value
        end == st.pos + n + 2 + 2 * count
    IN IF /\ st.ok /\ has(st.pos, "num")
          /\ \A i \in 1 .. n : has(st.pos + i, "letter")
          /\ has(st.pos + n + 1, "hash") /\ has(st.pos + n + 2, "num")
          /\ \A i \in 1 .. count : /\ has(st.pos + n + 2 * i + 1, "hash")
                                   /\ has(st.pos + n + 2 * i + 2, "num")
       THEN [ok |-> TRUE, pos |-> end + 1,
             files |-> Append(st.files,
                [name |-> [i \in 1 .. n |-> body[st.pos + i].value],
                 fileHash |-> body[st.pos + n + 1],
                 chunks |-> [i \in 1 .. count |-> body[st.pos + n + 2 * i + 1]]])]
       ELSE [st EXCEPT !.ok = FALSE]

(* decode: the length, the magic, the files one after the other, nothing   *)
(* behind them, and the hash.                                              *)
Decode(bytes) ==
    LET body == SubSeq(bytes, 1, Len(bytes) - 1)
        read[k \in Nat] == IF k = 0 THEN [ok |-> TRUE, pos |-> 5, files |-> <<>>]
                           ELSE ReadFile(body, read[k - 1])
        all == read[body[4].value]
    IN IF /\ Len(bytes) >= 5 /\ body[1] = Magic
          /\ all.ok /\ all.pos = Len(body) + 1
          /\ bytes[Len(bytes)] = Hash(body)
       THEN [ok |-> TRUE, files |-> all.files]
       ELSE Bad

(* chunk_set: a chunk that several files share counts once. *)
ChunkSet(files) == UNION {{files[i].chunks[k] : k \in DOMAIN files[i].chunks} :
                            i \in DOMAIN files}
=============================================================================
