------------------------------ MODULE FileStore ------------------------------
(***************************************************************************)
(* What the file system promises its caller: a directory of files, each a   *)
(* name, its bytes and the accesses it grants.  Nothing is said of inodes,  *)
(* blocks or free space, except that a call may run out of room: create     *)
(* then fails, write and append keep a prefix of what they were given and   *)
(* say how long it is.                                                      *)
(***************************************************************************)
EXTENDS Integers, Sequences

CONSTANTS Slots,       (* places in the directory: numbers                  *)
          Names, NoFile, AllModes, Buffers, ReadSizes, Permissions,
          MaxSize      (* bytes a file may hold                             *)

VARIABLES files, last

Init ==
    /\ files = [i \in Slots |-> NoFile]
    /\ last = [call |-> "format", asked |-> 0, ret |-> 0, data |-> <<>>]

(* A name may occur twice; every call means its first occurrence.          *)
Has(name, i) == files[i] # NoFile /\ files[i].name = name
First(name, i) == Has(name, i) /\ \A k \in Slots : Has(name, k) => i <= k

Answer(call, asked, ret, data) ==
    last' = [call |-> call, asked |-> asked, ret |-> ret, data |-> data]

Create(name) ==
    \/ \E i \in Slots :
          /\ files[i] = NoFile
          /\ files' = [files EXCEPT ![i] =
                [name |-> name, content |-> <<>>, modes |-> AllModes]]
          /\ Answer("create", 0, i, <<>>)
    \/ UNCHANGED files /\ Answer("create", 0, -1, <<>>)

(* A call on a file that is not there or does not grant the access.        *)
Refused(call, asked, name, mode) ==
    /\ \A i \in Slots : First(name, i) => mode \notin files[i].modes
    /\ UNCHANGED files
    /\ Answer(call, asked, -1, <<>>)

Delete(name) ==
    \E i \in Slots :
        /\ First(name, i) /\ "write" \in files[i].modes
        /\ files' = [files EXCEPT ![i] = NoFile]
        /\ Answer("delete", 0, 0, <<>>)

Chmod(name, modes) ==
    \/ \E i \in Slots :
          /\ First(name, i)
          /\ files' = [files EXCEPT ![i].modes = modes]
          /\ Answer("chmod", 0, 0, <<>>)
    \/ /\ \A i \in Slots : ~Has(name, i)
       /\ UNCHANGED files
       /\ Answer("chmod", 0, -1, <<>>)

(* A read returns the whole beginning of the file, as long as asked for.   *)
Read(name, size) ==
    \E i \in Slots :
        /\ First(name, i) /\ "read" \in files[i].modes
        /\ LET n == IF size < Len(files[i].content) THEN size
                                                    ELSE Len(files[i].content)
           IN  Answer("read", size, n, SubSeq(files[i].content, 1, n))
        /\ UNCHANGED files

(* The first n bytes of buffer are put behind the bytes kept of the file.  *)
Put(call, i, kept, buffer) ==
    \E n \in 0 .. Len(buffer) :
        /\ Len(kept) + n <= MaxSize
        /\ files' = [files EXCEPT ![i].content = kept \o SubSeq(buffer, 1, n)]
        /\ Answer(call, Len(buffer), n, <<>>)

Write(name, buffer) ==
    \E i \in Slots : /\ First(name, i) /\ "write" \in files[i].modes
                     /\ Put("write", i, <<>>, buffer)

Append_(name, buffer) ==
    \E i \in Slots :
        /\ First(name, i) /\ "write" \in files[i].modes
        /\ IF Len(files[i].content) = MaxSize
           THEN UNCHANGED files /\ Answer("append", Len(buffer), -1, <<>>)
           ELSE Put("append", i, files[i].content, buffer)

Next ==
    \E name \in Names :
        \/ Create(name)
        \/ Delete(name) \/ Refused("delete", 0, name, "write")
        \/ \E modes \in Permissions : Chmod(name, modes)
        \/ \E size \in ReadSizes :
              Read(name, size) \/ Refused("read", size, name, "read")
        \/ \E buffer \in Buffers :
              \/ Write(name, buffer)
              \/ Refused("write", Len(buffer), name, "write")
              \/ Append_(name, buffer)
              \/ Refused("append", Len(buffer), name, "write")

Spec == Init /\ [][Next]_<<files, last>>
=============================================================================
