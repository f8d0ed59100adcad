----------------------------- MODULE SftpServer -----------------------------
(***************************************************************************)
(* The SFTP subsystem of one SSH session: SftpHandler over one directory   *)
(* of the served root.  Requests are handled one at a time.  A file is an  *)
(* inode with a size; names, sizes and offsets come from small sets; the   *)
(* bytes, the attributes (setstat and fsetstat set permissions only), the  *)
(* status replies, sub-directories (mkdir, rmdir) and links to links are   *)
(* left out.  Offsets are of width OffMax + 1 and wrap like the u64 they   *)
(* stand for.                                                              *)
(***************************************************************************)
EXTENDS Naturals, FiniteSets, FiniteSetsExt

CONSTANTS Names,       \* names in the directory
          Inodes,      \* identities of files
          Handles,     \* slots for open handles
          MaxSize,     \* max_file_size, smaller than any offset that wraps
          OffMax,      \* largest offset
          SeekMax,     \* largest offset seek accepts
          Batch,       \* BATCH_SIZE of readdir
          Nil

ASSUME SftpConstants ==
  /\ {MaxSize, OffMax, SeekMax} \subseteq Nat /\ MaxSize < SeekMax /\ SeekMax < OffMax
  /\ Batch \in Nat /\ Batch > 2
  /\ Nil \notin Inodes \cup Nat /\ Inodes \cap [to: Names] = {}

VARIABLES
  writable,   \* allow_write of the configuration
  dir,        \* name |-> inode, [to: name] of a link, or Nil
  size,       \* inode |-> size, Nil when unused
  hnd,        \* the open handles, files and directories
  over        \* history: files appended to through a handle in append mode

sftpVars == <<writable, dir, size, hnd, over>>

Link(n) == [to |-> n]

IsLink(n) == dir[n] # Nil /\ dir[n] \in {Link(m) : m \in Names}

IsFile(n) == dir[n] \in Inodes

SftpInit ==
  /\ writable \in BOOLEAN
  /\ dir \in [Names -> Inodes \cup {Nil}]
  /\ \A m, n \in Names : m # n /\ dir[m] # Nil => dir[m] # dir[n]
  /\ size = [i \in Inodes |-> IF \E n \in Names : dir[n] = i THEN 0 ELSE Nil]
  /\ hnd = [h \in Handles |-> Nil]
  /\ over = {}

-----------------------------------------------------------------------------
(* resolve_path: canonicalize follows a link whose target exists; otherwise *)
(* only the parent is canonical and the name stays.                         *)
Resolve(n) == IF IsLink(n) /\ IsFile(dir[n].to) THEN dir[n].to ELSE n

CheckWrite == writable

Fresh == {i \in Inodes : size[i] = Nil}

\* Opening a link to nothing creates its target.
Created(n) == IF IsLink(n) THEN dir[n].to ELSE n

OpenFile(n, h, flags) ==
  LET path == Resolve(n)
      isWrite == flags \cap {"write", "create", "truncate", "append"} # {}
  IN /\ hnd[h] = Nil
     /\ isWrite => CheckWrite
     /\ IF IsFile(path)
        THEN /\ ~(isWrite /\ size[dir[path]] > MaxSize)
             /\ size' = IF "truncate" \in flags THEN [size EXCEPT ![dir[path]] = 0] ELSE size
             /\ hnd' = [hnd EXCEPT ![h] =
                  [kind |-> "file", ino |-> dir[path], path |-> path,
                   write |-> isWrite, append |-> "append" \in flags]]
             /\ UNCHANGED dir
        ELSE /\ "create" \in flags /\ dir[Created(path)] = Nil
             /\ \E i \in Fresh :
                  /\ dir' = [dir EXCEPT ![Created(path)] = i]
                  /\ size' = [size EXCEPT ![i] = 0]
                  /\ hnd' = [hnd EXCEPT ![h] =
                       [kind |-> "file", ino |-> i, path |-> path,
                        write |-> TRUE, append |-> "append" \in flags]]
     /\ UNCHANGED <<writable, over>>

CloseHandle(h) ==
  /\ hnd[h] # Nil
  /\ hnd' = [hnd EXCEPT ![h] = Nil]
  /\ UNCHANGED <<writable, dir, size, over>>

\* new_size is computed in u64; a handle in append mode writes at the end of
\* the file whatever the offset.
NewSize(offset, n) == (offset + n) % (OffMax + 1)

WriteFile(h, offset, n) ==
  /\ CheckWrite /\ hnd[h] # Nil /\ hnd[h].kind = "file" /\ hnd[h].write
  /\ NewSize(offset, n) <= MaxSize
  /\ offset <= SeekMax
  /\ LET i == hnd[h].ino
         end == IF hnd[h].append THEN size[i] + n ELSE offset + n
     IN /\ end <= OffMax
        /\ size' = [size EXCEPT ![i] = IF end > @ THEN end ELSE @]
        /\ over' = IF hnd[h].append THEN over \cup {i} ELSE over
  /\ UNCHANGED <<writable, dir, hnd>>

OpenDir(h) ==
  /\ hnd[h] = Nil
  /\ LET all == {n \in Names : dir[n] # Nil} IN
     hnd' = [hnd EXCEPT ![h] = [kind |-> "dir", all |-> all, left |-> all, sent |-> {}, gone |-> {},
                                first |-> TRUE, done |-> FALSE]]
  /\ UNCHANGED <<writable, dir, size, over>>

\* The entries of the next reply, which has room for Batch; "." and ".." come with
\* the first one, and what is gone by now is passed over and takes no room.
Replies(d) ==
  LET room == IF d.first THEN Batch - 2 ELSE Batch IN
  {batch \in SUBSET d.left :
     LET shown == {n \in batch : dir[n] # Nil} IN
     Cardinality(shown) <= room /\ (batch = d.left \/ Cardinality(shown) = room)}

ReadDirBad(h) ==
  /\ hnd[h] # Nil /\ hnd[h].kind = "dir" /\ ~hnd[h].done
  /\ \E batch \in Replies(hnd[h]) :
       hnd' = [hnd EXCEPT ![h].left = @ \ batch, ![h].first = FALSE,
                          ![h].sent = @ \cup batch, ![h].done = TRUE]
  /\ UNCHANGED <<writable, dir, size, over>>

\* One reply, or an end of file when nothing is left to show.
ReadDir(h) ==
  /\ hnd[h] # Nil /\ hnd[h].kind = "dir" /\ ~hnd[h].done
  /\ \E batch \in Replies(hnd[h]) :
       hnd' = [hnd EXCEPT ![h].left = @ \ batch, ![h].first = FALSE,
                          ![h].sent = @ \cup {n \in batch : dir[n] # Nil},
                          ![h].gone = @ \cup {n \in batch : dir[n] = Nil},
                          ![h].done = (hnd[h].left = batch)]
  /\ UNCHANGED <<writable, dir, size, over>>

\* An inode without a name goes once no handle is open on it.
Reclaim(d, i) == size' = [size EXCEPT ![i] =
  IF (\E n \in Names : d[n] = i) \/ \E h \in Handles : hnd[h] # Nil /\ hnd[h].kind = "file" /\ hnd[h].ino = i
  THEN @ ELSE Nil]

\* The path was made canonical, so what goes is the target of a link.
RemoveFile(n) ==
  /\ CheckWrite /\ dir[Resolve(n)] # Nil
  /\ LET p == Resolve(n) IN
     /\ dir' = [dir EXCEPT ![p] = Nil]
     /\ IF IsFile(p) THEN Reclaim(dir', dir[p]) ELSE UNCHANGED size
  /\ UNCHANGED <<writable, hnd, over>>

RenameFile(old, new) ==
  /\ CheckWrite /\ dir[Resolve(old)] # Nil /\ Resolve(old) # Resolve(new)
  /\ LET o == Resolve(old)  n == Resolve(new) IN
     /\ dir' = [dir EXCEPT ![n] = dir[o], ![o] = Nil]
     /\ IF IsFile(n) THEN Reclaim(dir', dir[n]) ELSE UNCHANGED size
  /\ UNCHANGED <<writable, hnd, over>>

Symlink(link, target) ==
  /\ CheckWrite /\ dir[link] = Nil /\ link # target
  /\ dir' = [dir EXCEPT ![link] = Link(target)]
  /\ UNCHANGED <<writable, size, hnd, over>>

SftpNext ==
  \/ \E h \in Handles :
       \/ CloseHandle(h) \/ OpenDir(h) \/ ReadDir(h)
       \/ \E offset \in 0..OffMax, n \in 1..2 : WriteFile(h, offset, n)
       \/ \E n \in Names, flags \in {{"read"}, {"write", "create", "truncate"}, {"append"}} :
            OpenFile(n, h, flags)
  \/ \E n \in Names : RemoveFile(n) \/ \E m \in Names : RenameFile(n, m) \/ Symlink(n, m)

-----------------------------------------------------------------------------
(* Properties *)

\* No file grows past max_file_size through this session, unless a handle in
\* append mode wrote it: there the size is checked against an offset the write
\* does not use (write, open).
SizeBounded == \A i \in Inodes : size[i] # Nil => size[i] <= MaxSize \/ i \in over

\* A directory read to its end has reported every entry that was there when it
\* was opened and not gone when its turn came, whatever was created, renamed or
\* removed between the replies (opendir, readdir).
ListingComplete ==
  \A h \in Handles : hnd[h] # Nil /\ hnd[h].kind = "dir" /\ hnd[h].done
    => hnd[h].all = hnd[h].sent \cup hnd[h].gone

\* Handles stay right while the directory and the files under them change:
\* listings are complete and the limit on sizes holds (readdir, write).
SftpKeepsTrack == SizeBounded /\ ListingComplete
=============================================================================
