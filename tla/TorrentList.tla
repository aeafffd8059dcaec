---------------------------- MODULE TorrentList -----------------------------
(* prog/tl: the list of names in tl.list that hide appends to, list looks  *)
(* up and unhide rewrites by way of tl.list.tmp.  One command runs at a    *)
(* time and may be killed after any step; transmission adds and removes    *)
(* torrents whenever it likes, and says nothing when it cannot be reached. *)
(* The last two variables are what the user means by the commands: they    *)
(* follow the torrents that there are, whatever the program sees of them.  *)
EXTENDS Integers, Sequences, FiniteSets, SequencesExt, FiniteSetsExt

CONSTANTS Ids, Names, MaxLines, Absent

Settings == Ids \subseteq Nat /\ IsFiniteSet(Ids) /\ MaxLines \in Nat /\ Absent \notin Names \cup Seq(Names)

VARIABLES torrents,   \* of each id: the name of its torrent, or Absent
          list, tmp,  \* lines of tl.list and of tl.list.tmp, or Absent
          command,    \* what runs: [at, ids, there, seen, line]
          hidden,     \* names that the user has hidden, and not unhidden since
          unsure      \* those of which this cannot be said, or was not heard

tl == <<torrents, list, tmp, command, hidden, unsure>>

Nobody == [id \in Ids |-> Absent]
None == [at |-> "none", ids |-> {}, there |-> Nobody, seen |-> Nobody, line |-> 0]
Lines(file) == IF file = Absent THEN <<>> ELSE file

Init == /\ torrents \in [Ids -> Names \cup {Absent}] /\ list = Absent /\ tmp = Absent
        /\ command = None /\ hidden = {} /\ unsure = {}

(* What transmission-remote -l prints is what the command goes by.         *)
Asks(from, to) ==
  /\ command.at = from
  /\ \E seen \in {torrents, Nobody} : command' = [command EXCEPT !.at = to, !.there = torrents, !.seen = seen]
  /\ UNCHANGED <<torrents, list, tmp, hidden, unsure>>

Starts(at) ==
  /\ command = None
  /\ \E ids \in SUBSET Ids \ {{}} : command' = [None EXCEPT !.at = at, !.ids = ids]

(* What the user names by the ids, and what by the ids that were not given. *)
NamesOf(ids) == {command.there[id] : id \in ids} \ {Absent}
Asked == NamesOf(command.ids)
Spared == NamesOf(Ids \ command.ids)
Heard == command.seen = command.there

Ascending(S) ==
  CHOOSE s \in [1 .. Cardinality(S) -> S] : \A i, j \in DOMAIN s : i < j => s[i] < s[j]

(* hide: the names of the torrents that have one of the ids.               *)
Hide == Starts("hide") /\ Len(Lines(list)) + Cardinality(Ids) <= MaxLines /\ UNCHANGED <<torrents, list, tmp, hidden, unsure>>
HideAppend ==
  LET ids == Ascending({id \in command.ids : command.seen[id] # Absent})
      names == [k \in DOMAIN ids |-> command.seen[ids[k]]]
  IN  /\ command.at = "append"
      /\ list' = Lines(list) \o names
      /\ hidden' = hidden \cup Asked
      /\ unsure' = IF Heard THEN unsure \ Asked ELSE unsure \cup Asked
      /\ command' = None
      /\ UNCHANGED <<torrents, tmp>>

(* unhide, which ends at once when there is no list.                       *)
Unhide_Append ==                 \* a slip: goes on with what is in tl.list.tmp
  Starts("unhide") /\ list # Absent /\ tmp' = Lines(tmp) /\ UNCHANGED <<torrents, list, hidden, unsure>>
Unhide ==
  Starts("unhide") /\ list # Absent /\ tmp' = <<>> /\ UNCHANGED <<torrents, list, hidden, unsure>>

(* show: a line stays unless no torrent has that name, or the first that   *)
(* has is one that was asked for.                                          *)
Bearers(name) == {id \in Ids : command.seen[id] = name}
Stays(name) == Bearers(name) # {} /\ Min(Bearers(name)) \notin command.ids

ShowLine ==
  /\ command.at = "show" /\ command.line < Len(list)
  /\ LET name == list[command.line + 1] IN tmp' = IF Stays(name) THEN Append(tmp, name) ELSE tmp
  /\ command' = [command EXCEPT !.line = @ + 1]
  /\ UNCHANGED <<torrents, list, hidden, unsure>>

(* What the user means is that the names asked for go, and those of which  *)
(* there is no torrent any more.                                           *)
Rename ==
  /\ command.at = "show" /\ command.line = Len(list)
  /\ list' = tmp /\ tmp' = Absent
  /\ hidden' = hidden \cap (Spared \ Asked)
  /\ unsure' = IF Heard THEN unsure \cup (Asked \cap Spared) ELSE hidden'
  /\ command' = None
  /\ UNCHANGED torrents

Killed == command # None /\ command' = None /\ UNCHANGED <<torrents, list, tmp, hidden, unsure>>

TorrentsChange ==
  /\ \E id \in Ids : \E name \in Names \cup {Absent} : torrents' = [torrents EXCEPT ![id] = name]
  /\ UNCHANGED <<list, tmp, command, hidden, unsure>>

Next == \/ Hide \/ Asks("hide", "append") \/ HideAppend
        \/ Unhide \/ Asks("unhide", "show") \/ ShowLine \/ Rename
        \/ Killed \/ TorrentsChange

(* list, with -a or -i.                                                    *)
IsHidden(name) == name \in ToSet(Lines(list))
Listed(all, inverse) ==
  {id \in Ids : /\ torrents[id] # Absent
                /\ all \/ inverse \/ ~IsHidden(torrents[id])
                /\ all \/ ~inverse \/ IsHidden(torrents[id])}
-----------------------------------------------------------------------------
(* Whatever was killed, and whatever it left behind, list shows every      *)
(* torrent but those whose names the user has hidden and not unhidden      *)
(* since, list -i those and list -a all of them.  Not so the names that    *)
(* were hidden, or had to be kept by an unhide, while transmission was     *)
(* silent: the program takes silence for an empty list of torrents, hides  *)
(* nothing, and drops every line, against "If id matches, omit this line.  *)
(* Otherwise keep it." (tl.c:208-209); nor a name of several torrents that *)
(* was unhidden for some of them.                                          *)
ListedAsHidden ==
  LET there == {id \in Ids : torrents[id] # Absent}
      known == {id \in there : torrents[id] \notin unsure}
      hiding == {id \in known : torrents[id] \in hidden}
  IN  /\ known \cap Listed(FALSE, FALSE) = known \ hiding
      /\ known \cap Listed(FALSE, TRUE) = hiding
      /\ Listed(TRUE, FALSE) = there /\ Listed(TRUE, TRUE) = there
=============================================================================
