-------------------------- MODULE ReleaseArchives --------------------------
(***************************************************************************)
(* What makes a release archive acceptable (scripts/check_release_archive.py *)
(* and check_install.py).  An archive is read as a sequence of members:    *)
(* where they lie, what they are and what the scan finds in them; the      *)
(* binary by its header; a Markdown file by the paths it links to.         *)
(***************************************************************************)
EXTENDS Naturals, Sequences, FiniteSets, SequencesExt

CONSTANTS
  LinuxTargets, MacTargets,   \* RELEASE_TARGETS
  CommonMembers,              \* REQUIRED_MEMBERS but for the binary
  DriverMembers               \* NATIVE_DRIVER_NOTICES, bundled for macOS

ReleaseTargets == LinuxTargets \cup MacTargets

Required(target) ==
  {"dxt"} \cup CommonMembers \cup (IF target \in MacTargets THEN DriverMembers ELSE {})

-----------------------------------------------------------------------------
(* The binary                                                               *)

SoundElf(header, target) ==
  header.format = "elf64-le" /\ header.kind = "executable" /\ header.machine = target

\* Only the system's own libraries may be loaded, and its runtime must be.
SoundMachO(header, target) ==
  /\ header.format = "mach-o64" /\ header.kind = "executable" /\ header.machine = target
  /\ header.libraries \subseteq {"libSystem", "libc++"} /\ "libSystem" \in header.libraries

SoundBinary(header, target) ==
  IF target \in MacTargets THEN SoundMachO(header, target) ELSE SoundElf(header, target)

-----------------------------------------------------------------------------
(* The archive                                                              *)

\* A member's path is normal and below the archive's root, its place is one of
\* the allowed ones, and it holds no token, key or local path.
SoundMember(m, target) ==
  /\ m.place = "root" /\ m.allowed
  /\ m.kind \in {"file", "dir"}
  /\ m.path \in Required(target) => m.kind = "file"
  /\ m.path = "dxt" => m.executable
  /\ m.kind = "file" => m.clean

\* The files and the directories above them, where a link may lead.
Bundled(archive) ==
  UNION {{m.path} \cup m.above : m \in {n \in ToSet(archive.members) : n.kind = "file"}}

\* Mutation: the binary's header is not compared with the target.
SoundButForHeader(archive, target) ==
  /\ archive.members # <<>>
  /\ IsInjective([i \in DOMAIN archive.members |-> archive.members[i].path])
  /\ \A m \in ToSet(archive.members) : SoundMember(m, target)
  /\ Required(target) \subseteq {m.path : m \in ToSet(archive.members)}
  /\ archive.links \subseteq Bundled(archive)

SoundArchive(archive, target) ==
  /\ archive.members # <<>>
  /\ IsInjective([i \in DOMAIN archive.members |-> archive.members[i].path])
  /\ \A m \in ToSet(archive.members) : SoundMember(m, target)
  /\ SoundBinary(archive.header, target)
  /\ Required(target) \subseteq {m.path : m \in ToSet(archive.members)}
  /\ archive.links \subseteq Bundled(archive)

-----------------------------------------------------------------------------
(* Checksums and the gate before publication.  A file is a name, made of a  *)
(* version and a target, and its bytes; a line of a checksum file is a name  *)
(* and the bytes it was computed from.                                      *)

ChecksumsHold(lines, files, allowOthers) ==
  LET named == {lines[i].name : i \in DOMAIN lines}
  IN /\ IsInjective([i \in DOMAIN lines |-> lines[i].name])
     /\ {f.name : f \in files} \subseteq named
     /\ allowOthers \/ named \subseteq {f.name : f \in files}
     /\ \A f \in files, i \in DOMAIN lines : lines[i].name = f.name => lines[i].bytes = f.bytes

\* infer_expectation: the archive's name is the version's and a target's.
Expected(file, version) == file.name.version = version /\ file.name.target \in ReleaseTargets

\* extract_verified_archive: a package job opens only what it has verified.
Installable(file, lines, version, content) ==
  /\ ChecksumsHold(lines, {file}, TRUE)
  /\ Expected(file, version) /\ SoundArchive(content, file.name.target)

\* main, with --require-all-targets: one sound archive for each target.
Publishable(files, lines, version, content) ==
  /\ \A f \in files : Expected(f, version) /\ SoundArchive(content[f.bytes], f.name.target)
  /\ {f.name.target : f \in files} = ReleaseTargets /\ Cardinality(files) = Cardinality(ReleaseTargets)
  /\ ChecksumsHold(lines, files, FALSE)
=============================================================================
