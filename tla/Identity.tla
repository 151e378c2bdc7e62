------------------------------- MODULE Identity -------------------------------
(***************************************************************************)
(* What the code hashes to name an entity: a frame for the type and one    *)
(* for each component, a frame being a tag, the length and the payload.    *)
(* A name here is the bytes that are hashed; that SHA-1 keeps different    *)
(* bytes apart is assumed.  A length and a number are one digit each, of   *)
(* the base 2^32 in which the code packs them.                             *)
(***************************************************************************)
EXTENDS Naturals, Sequences

CONSTANTS Entities,
          RelationTypes, EntityTypes, TypeName   \* the bytes of each type's word

ASSUME NameAssumption ==
  /\ \A t \in EntityTypes \cup RelationTypes : TypeName[t] \in Seq(Nat)
  /\ \A t, u \in EntityTypes \cup RelationTypes : TypeName[t] = TypeName[u] => t = u
ASSUME TypesAssumption ==
  /\ EntityTypes = {"repository", "source_revision", "logical_file", "directory", "file", "symbol", "chunk",
                    "index_generation", "point", "identity_key"}
  /\ EntityTypes \cap RelationTypes = {}

-----------------------------------------------------------------------------
\* frame_text, frame_uuid, frame_bytes, frame_uint32.
Unprefixed(tag, payload) == <<tag>> \o payload   \* mutant: no length
Frame(tag, payload) == <<tag, Len(payload)>> \o payload
FrameText(v) == Frame(1, v)
FrameUuid(v) == Frame(2, v)   \* <<>> for none
FrameBytes(v) == Frame(3, v)
FrameUint(n) == Frame(4, <<n>>)
EntityId(type, frames) == FrameText(TypeName[type]) \o frames

RepositoryId(a) == EntityId("repository", FrameText(a[1]))
RevisionId(a) == EntityId("source_revision", FrameUuid(a[1]) \o FrameText(a[2]))
FileKey(a) == EntityId("logical_file", FrameUuid(a[1]) \o FrameText(a[2]))
DirectoryId(a) == EntityId("directory", FrameUuid(a[1]) \o FrameText(a[2]))
FileId(a) == EntityId("file", FrameUuid(a[1]) \o (FrameText(a[2]) \o FrameBytes(a[3])))
\* file, parser version, kind, qualified name, signature, ordinal
SymbolId(a) ==
  EntityId("symbol", FrameUuid(a[1]) \o (FrameText(a[2]) \o (FrameText(a[3]) \o (FrameText(a[4]) \o
                     (FrameText(a[5]) \o FrameUint(a[6]))))))
\* anchor, symbol or <<>>, file, parser version, chunking version, kind, ordinal, hash of the span
ChunkId(a) ==
  EntityId("chunk", FrameText(a[1]) \o (FrameUuid(a[2]) \o (FrameUuid(a[3]) \o (FrameText(a[4]) \o
                    (FrameText(a[5]) \o (FrameText(a[6]) \o (FrameUint(a[7]) \o FrameBytes(a[8]))))))))
\* revision, four versions, embedding fingerprint, attempt
GenerationId(a) ==
  EntityId("index_generation", FrameUuid(a[1]) \o (FrameText(a[2]) \o (FrameText(a[3]) \o (FrameText(a[4]) \o
                               (FrameText(a[5]) \o (FrameBytes(a[6]) \o FrameUint(a[7])))))))
PointId(a) == EntityId("point", FrameUuid(a[1]) \o (FrameBytes(a[2]) \o FrameBytes(a[3])))
IdentityKey(a) ==
  EntityId("identity_key", FrameUuid(a[1]) \o (FrameText(a[2]) \o (FrameText(a[3]) \o
                           (FrameText(a[4]) \o FrameText(a[5])))))
\* generation, source, target, mentioned name, resolution
EdgeId(type, a) ==
  EntityId(type, FrameUuid(a[1]) \o (FrameUuid(a[2]) \o (FrameUuid(a[3]) \o
                 (FrameText(a[4]) \o FrameText(a[5])))))

Id(e) ==
  CASE e.type = "repository" -> RepositoryId(e.parts)
    [] e.type = "source_revision" -> RevisionId(e.parts)
    [] e.type = "logical_file" -> FileKey(e.parts)
    [] e.type = "directory" -> DirectoryId(e.parts)
    [] e.type = "file" -> FileId(e.parts)
    [] e.type = "symbol" -> SymbolId(e.parts)
    [] e.type = "chunk" -> ChunkId(e.parts)
    [] e.type = "index_generation" -> GenerationId(e.parts)
    [] e.type = "point" -> PointId(e.parts)
    [] e.type = "identity_key" -> IdentityKey(e.parts)
    [] OTHER -> EdgeId(e.type, e.parts)

-----------------------------------------------------------------------------
\* What each component is: text and hashes are bytes, a UUID is bytes, none of them where it may be missing.
Bytes == Seq(Nat)
Uuid == Bytes
Parts(type) ==
  CASE type = "repository" -> [1..1 -> Bytes]
    [] type \in {"source_revision", "logical_file", "directory"} -> Uuid \X Bytes
    [] type = "file" -> Uuid \X Bytes \X Bytes
    [] type = "symbol" -> Uuid \X Bytes \X Bytes \X Bytes \X Bytes \X Nat
    [] type = "chunk" -> Bytes \X Uuid \X Uuid \X Bytes \X Bytes \X Bytes \X Nat \X Bytes
    [] type = "index_generation" -> Uuid \X Bytes \X Bytes \X Bytes \X Bytes \X Bytes \X Nat
    [] type = "point" -> Uuid \X Bytes \X Bytes
    [] type = "identity_key" -> Uuid \X Bytes \X Bytes \X Bytes \X Bytes
    [] OTHER -> Uuid \X Uuid \X Uuid \X Bytes \X Bytes
Entity(e) == /\ e = [type |-> e.type, parts |-> e.parts]
             /\ e.type \in EntityTypes \cup RelationTypes /\ e.parts \in Parts(e.type)
ASSUME EntitiesAssumption == \A e \in Entities : Entity(e)

\* Two entities are named, one after the other.
VARIABLES one, other, id
vars == <<one, other, id>>
Init == one \in Entities /\ other \in Entities /\ id = <<>>
NameOne == id = <<>> /\ id' = <<Id(one)>> /\ UNCHANGED <<one, other>>
NameOther == Len(id) = 1 /\ id' = <<id[1], Id(other)>> /\ UNCHANGED <<one, other>>
Next == NameOne \/ NameOther
Spec == Init /\ [][Next]_vars

\* identity.py:3: two different component lists never give the same bytes to hash, whatever their types.
Distinct == Len(id) = 2 /\ id[1] = id[2] => one = other
=============================================================================
