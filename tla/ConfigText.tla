----------------------------- MODULE ConfigText -----------------------------
(***************************************************************************)
(* The text transforms behind GeST's configuration files: how a value is    *)
(* put into a file the user also edits, and how it is read back.            *)
(*                                                                         *)
(* A file is a sequence of lines.  A line is                                *)
(*   set    an active assignment or data line for `key`                     *)
(*   off    a commented-out assignment of `key` (# KEY=value)               *)
(*   open   a section header, block start, BEGIN marker or Match line       *)
(*   close  a block's `}` or END marker                                     *)
(*   note   a comment or any other text; "blank" is an empty one            *)
(* Whitespace, quoting and the spelling of values are not modelled.  A      *)
(* value "" removes the key where the editor can remove it.                 *)
(***************************************************************************)
EXTENDS Naturals, Sequences, SequencesExt

CONSTANTS TextKeys,  \* keys, interfaces, mount points, atoms or SSIDs edited
          Vals,      \* values an edit may write
          MaxLines,  \* bound: lines of the file before the first edit
          MaxEdits   \* bound: edits made

VARIABLES kind,      \* which transform this file is edited with
          before,    \* the file the last edit read
          text,      \* the file now
          edit,      \* the last edit
          edits      \* edits made so far

textVars == <<kind, before, text, edit, edits>>

Ln(t, k, v) == [t |-> t, key |-> k, val |-> v]
SetLn(k, v) == Ln("set", k, v)
OffLn(k, v) == Ln("off", k, v)
Note(v) == Ln("note", "", v)
Blank == Note("blank")
\* A line GeST writes for its own purposes: the header of a generated file.
Marker == Note("gest")
Absent == "absent"

IsSet(l, k) == l.t = "set" /\ l.key = k

FirstVal(t, k) ==
    LET i == SelectInSeq(t, LAMBDA l : IsSet(l, k))
    IN  IF i = 0 THEN Absent ELSE t[i].val
LastVal(t, k) ==
    LET i == SelectLastInSeq(t, LAMBDA l : IsSet(l, k))
    IN  IF i = 0 THEN Absent ELSE t[i].val

-----------------------------------------------------------------------------
(* Replace-first transforms *)

\* console.set_conf_value: the first active line is replaced, else appended.
set_conf_value(t, k, v) ==
    LET i == SelectInSeq(t, LAMBDA l : IsSet(l, k))
    IN  IF i = 0 THEN Append(t, SetLn(k, v)) ELSE ReplaceAt(t, i, SetLn(k, v))

parse_conf_value(t, k) == FirstVal(t, k)

\* sshd: the value a directive has when the file does not set it.
SshdDefault == CHOOSE v \in Vals : TRUE
\* sshd.parse_settings: the first active line of each keyword, Match or not.
parse_settings(t) ==
    [k \in TextKeys |-> IF FirstVal(t, k) = Absent THEN SshdDefault
                    ELSE FirstVal(t, k)]
\* sshd.apply_settings: every managed keyword is upserted, one after another.
apply_settings(t, s) ==
    FoldLeft(LAMBDA acc, k : set_conf_value(acc, k, s[k]), t, SetToSeq(TextKeys))

\* Mutant: the new line is added although the mount point has one.
upsert_entry_adds(t, k, v) == Append(t, SetLn(k, v))

\* fstab.upsert_entry: the first line of the mount point, else at the end.
upsert_entry(t, k, v) ==
    LET i == SelectInSeq(t, LAMBDA l : IsSet(l, k))
    IN  IF i = 0 THEN Append(t, SetLn(k, v)) ELSE ReplaceAt(t, i, SetLn(k, v))
\* fstab.remove_entry drops every data line of the mount point.
remove_entry(t, k) == SelectSeq(t, LAMBDA l : ~ IsSet(l, k))

\* seamless.apply_grub_default: the first mention of a key, active or
\* commented out, becomes the assignment; keys not met are appended under a
\* header of their own.
apply_grub_default(t, k, v) ==
    LET i == SelectInSeq(t, LAMBDA l : l.t \in {"set", "off"} /\ l.key = k)
        sep == IF t # <<>> /\ Last(t) # Blank THEN <<Blank>> ELSE <<>>
    IN  IF i # 0 THEN ReplaceAt(t, i, SetLn(k, v))
        ELSE t \o sep \o <<Marker, SetLn(k, v)>>

-----------------------------------------------------------------------------
(* Remove-and-append transforms *)

\* netifrc.render_conf_net: the interface's config_ and routes_ lines go, the
\* new ones are appended; "none" appends nothing.  The routes_ line stands or
\* falls with the config_ line and is part of the value.
render_conf_net(t, k, v) ==
    LET kept == SelectSeq(t, LAMBDA l : ~ IsSet(l, k))
    IN  IF v = "" THEN kept ELSE Append(kept, SetLn(k, v))
\* netifrc.parse_conf_net: later assignments win, as in the shell.
parse_conf_net(t, k) == LastVal(t, k)

\* atomfile.upsert: every line of the atom goes, the new one is appended.
atom_upsert(t, k, v) ==
    LET kept == SelectSeq(t, LAMBDA l : ~ IsSet(l, k))
    IN  IF v = "" THEN kept ELSE Append(kept, SetLn(k, v))
\* atomfile.line_for
line_for(t, k) == FirstVal(t, k)

\* Is line i inside an open block or section, i.e. is the last bracket an open?
Inside(t, i, k) ==
    LET j == SelectLastInSubSeq(t, 1, i, LAMBDA l : l.t \in {"open", "close"})
    IN  j # 0 /\ t[j].t = "open" /\ t[j].key = k
Positions(t, P(_)) == SelectSeq([i \in 1..Len(t) |-> i], P)
Pick(t, is) == [n \in 1..Len(is) |-> t[is[n]]]

\* Mutant: everything behind BEGIN is taken for the block.
strip_doas_block_tail(t) ==
    LET i == SelectInSeq(t, LAMBDA l : l.t = "open")
    IN  IF i = 0 THEN t ELSE SubSeq(t, 1, i - 1)

\* privilege.strip_doas_block: from BEGIN to END (to the end of the file when
\* END is missing); a stray END goes as well.
strip_doas_block(t) ==
    Pick(t, Positions(t, LAMBDA i : t[i].t # "close" /\ t[i].t # "open"
                                    /\ ~ Inside(t, i, "gest")))

\* Mutant: the old block is not stripped first.
apply_doas_block_twice(t, k, v) ==
    t \o <<Ln("open", "gest", ""), SetLn(k, v), Ln("close", "gest", "")>>

\* privilege.apply_doas_block and the disabled branch of _set_doas.
apply_doas_block(t, k, v) ==
    strip_doas_block(t)
    \o IF v = "" THEN <<>>
       ELSE <<Ln("open", "gest", ""), SetLn(k, v), Ln("close", "gest", "")>>
\* privilege.parse_doas_block: the first permit line of the block.
parse_doas_block(t) ==
    LET end == SelectInSeq(t, LAMBDA l : l.t = "close")
        is == Positions(t, LAMBDA i : t[i].t = "set" /\ Inside(t, i, "gest")
                                      /\ (end = 0 \/ i < end))
    IN  IF is = <<>> THEN Absent ELSE t[is[1]].val

\* wifi._segments: a network block runs from its open line to the closing
\* brace or the end of the file; a further `network={` belongs to the block.
BlockStarts(t) ==
    FoldLeftDomain(
        LAMBDA acc, i :
            IF acc.in THEN [acc EXCEPT !.in = t[i].t # "close",
                                       !.of = Append(acc.of, Last(acc.of))]
            ELSE IF t[i].t = "open" THEN [in |-> TRUE, of |-> Append(acc.of, i)]
            ELSE [acc EXCEPT !.of = Append(acc.of, 0)],
        [in |-> FALSE, of |-> <<>>], t).of
\* wifi.remove_network: every block of the SSID goes, other text stays.
remove_network(t, k) ==
    LET starts == BlockStarts(t)
    IN  Pick(t, Positions(t, LAMBDA i :
                             starts[i] = 0 \/ t[starts[i]].key # k))
\* wifi.append_network after remove_network, with the ctrl_interface header.
append_network(t, k, v) ==
    LET base == remove_network(t, k)
        head == IF Contains(base, Marker) THEN base ELSE <<Marker>> \o base
    IN  IF v = "" THEN base
        ELSE head \o <<Blank, Ln("open", k, v), Ln("close", "", "")>>
\* wifi.parse_networks: the blocks with an SSID, by their first line.
parse_networks(t, k) ==
    LET starts == BlockStarts(t)
        is == Positions(t, LAMBDA i : starts[i] = i /\ t[i].key = k)
    IN  IF is = <<>> THEN Absent ELSE t[is[1]].val

-----------------------------------------------------------------------------
(* make.conf: the last assignment wins, and the last one is replaced *)

\* Mutant: the first assignment is replaced.
shell_render_first(t, k, v) ==
    LET i == SelectInSeq(t, LAMBDA l : IsSet(l, k))
    IN  IF i = 0 THEN Append(t, SetLn(k, v)) ELSE ReplaceAt(t, i, SetLn(k, v))

\* shell.render
shell_render(t, k, v) ==
    LET i == SelectLastInSeq(t, LAMBDA l : IsSet(l, k))
        sep == IF t # <<>> /\ Last(t) # Blank THEN <<Blank>> ELSE <<>>
    IN  IF i # 0 THEN ReplaceAt(t, i, SetLn(k, v))
        ELSE t \o sep \o <<SetLn(k, v)>>
\* shell.variables
shell_value(t, k) == LastVal(t, k)

-----------------------------------------------------------------------------
(* INI fragments *)

\* The section under edit; the edited keys are fields of it.
Repo == "repo"

\* ini.parse: repeated sections merge, later keys win.
ini_value(t, k) ==
    LET is == Positions(t, LAMBDA i : IsSet(t[i], k) /\ Inside(t, i, Repo))
    IN  IF is = <<>> THEN Absent ELSE t[Last(is)].val

\* edit.set_fields: the key's line in [repo] is replaced (or dropped for an
\* empty value); an unseen key is flushed at the end of the first [repo]
\* section, or into a new section when there is none.
set_fields(t, k, v) ==
    LET mine == Positions(t, LAMBDA i : IsSet(t[i], k) /\ Inside(t, i, Repo))
        new == IF v = "" THEN <<>> ELSE <<SetLn(k, v)>>
        head == SelectInSeq(t, LAMBDA l : l.t = "open" /\ l.key = Repo)
        next == IF head = 0 THEN 0
                ELSE SelectInSubSeq(t, head + 1, Len(t),
                                    LAMBDA l : l.t = "open")
        end == IF next = 0 THEN Len(t) ELSE next - 1
        sep == IF t # <<>> /\ Last(t) # Blank THEN <<Blank>> ELSE <<>>
    IN  IF head # 0 /\ mine # <<>> /\ mine[1] <= end
        THEN SubSeq(t, 1, mine[1] - 1) \o new
             \o SubSeq(t, mine[1] + 1, Len(t))
        ELSE IF head # 0
        THEN SubSeq(t, 1, end) \o new \o SubSeq(t, end + 1, Len(t))
        ELSE IF v = "" THEN t
        ELSE t \o sep \o <<Ln("open", Repo, ""), SetLn(k, v)>>

-----------------------------------------------------------------------------
(* Files GeST renders whole: comments and unknown lines are not kept *)

\* Mutant: the drop-in is rendered from the edited key alone.
render_conf_single(t, k, v) ==
    IF v = "" THEN <<Marker>> ELSE <<Marker, SetLn(k, v)>>

\* sysctl and envd parse_conf and render_conf, the refresh and disabled state
\* files and the GeST binhost fragment: a dictionary, one line per key.
DictOf(t) == [k \in {t[i].key : i \in {j \in 1..Len(t) : t[j].t = "set"}}
              |-> LastVal(t, k)]
render_conf(t, k, v) ==
    LET d == DictOf(t)
        keys == IF v = "" THEN DOMAIN d \ {k} ELSE DOMAIN d \cup {k}
    IN  <<Marker>> \o [n \in 1..Len(SetToSeq(keys)) |->
            LET key == SetToSeq(keys)[n]
            IN  SetLn(key, IF key = k THEN v ELSE d[key])]

\* hosts.render_hosts (and resolv.render_resolv) over what parse_hosts read,
\* with one entry edited: entries keep their order, everything else goes.
render_hosts(t, k, v) ==
    LET rows == SelectSeq(t, LAMBDA l : l.t = "set")
        rest == SelectSeq(rows, LAMBDA l : l.key # k)
    IN  <<Marker>> \o IF v = "" THEN rest ELSE Append(rest, SetLn(k, v))

-----------------------------------------------------------------------------
ReplaceFirstKinds == {"confd", "sshd", "fstab", "grub", "ini"}
RemoveAppendKinds == {"net", "atom", "doas", "wpa", "make"}
WholeKinds == {"dropin", "hosts"}
Kinds == ReplaceFirstKinds \cup RemoveAppendKinds \cup WholeKinds
\* The editors that can also take a key out again.
Removers == {"fstab", "net", "atom", "doas", "wpa", "ini", "dropin", "hosts"}

ApplyEdit(kd, t, k, v) ==
    CASE kd = "confd" -> set_conf_value(t, k, v)
      [] kd = "sshd" -> apply_settings(t, [parse_settings(t) EXCEPT ![k] = v])
      [] kd = "fstab" -> IF v = "" THEN remove_entry(t, k)
                         ELSE upsert_entry(t, k, v)
      [] kd = "grub" -> apply_grub_default(t, k, v)
      [] kd = "ini" -> set_fields(t, k, v)
      [] kd = "net" -> render_conf_net(t, k, v)
      [] kd = "atom" -> atom_upsert(t, k, v)
      [] kd = "doas" -> apply_doas_block(t, k, v)
      [] kd = "wpa" -> append_network(t, k, v)
      [] kd = "make" -> shell_render(t, k, v)
      [] kd = "dropin" -> render_conf(t, k, v)
      [] kd = "hosts" -> render_hosts(t, k, v)

\* What GeST's own reader shows for key k after a reload.
ReadValue(kd, t, k) ==
    CASE kd = "confd" -> parse_conf_value(t, k)
      [] kd = "sshd" -> parse_settings(t)[k]
      [] kd \in {"fstab", "hosts"} -> FirstVal(t, k)
      [] kd \in {"grub", "make"} -> shell_value(t, k)
      [] kd = "ini" -> ini_value(t, k)
      [] kd = "net" -> parse_conf_net(t, k)
      [] kd = "atom" -> line_for(t, k)
      [] kd = "doas" -> parse_doas_block(t)
      [] kd = "wpa" -> parse_networks(t, k)
      [] kd = "dropin" -> LastVal(t, k)

-----------------------------------------------------------------------------
(* What the program that owns the file takes from it: the shell takes the   *)
(* last assignment, sshd the first one outside a Match block, doas the last *)
(* rule, Portage every line of an atom (one is expected to remain).         *)

Globals(t) ==
    Pick(t, Positions(t, LAMBDA i : ~ Inside(t, i, "match")))
Consumer(kd, t, k) ==
    CASE kd \in {"confd", "grub", "make", "net", "dropin"} -> LastVal(t, k)
      [] kd = "sshd" -> FirstVal(Globals(t), k)
      [] kd = "doas" -> LastVal(t, k)
      [] kd = "atom" -> IF Len(SelectSeq(t, LAMBDA l : IsSet(l, k))) > 1
                        THEN "ambiguous" ELSE LastVal(t, k)
      [] OTHER -> ReadValue(kd, t, k)

\* No mention of a key twice in the same place, and no Match block: what the
\* replace-first transforms rely on.
Unambiguous(t) ==
    /\ \A i, j \in 1..Len(t) :
          (i # j /\ t[i].t \in {"set", "off"} /\ t[j].t \in {"set", "off"})
              => t[i].key # t[j].key
    /\ \A i, j \in 1..Len(t) :
          (i # j /\ t[i].t = "open" /\ t[j].t = "open") => t[i].key # t[j].key
    /\ \A i \in 1..Len(t) : t[i].t = "open" => t[i].key # "match"
\* Every block is closed before the next one opens.
Balanced(t) ==
    \A i \in 1..Len(t) : t[i].t = "open" =>
        \E j \in i + 1..Len(t) :
            t[j].t = "close" /\ \A m \in i + 1..j - 1 : t[m].t # "open"

NoEdit == [key |-> "", val |-> ""]

LinesOf(kd) ==
    {SetLn(k, v) : k \in TextKeys, v \in Vals} \cup {Note("n1"), Blank}
    \cup CASE kd = "grub" -> {OffLn(k, v) : k \in TextKeys, v \in Vals}
           [] kd = "sshd" -> {Ln("open", "match", "")}
           [] kd = "doas" -> {Ln("open", "gest", ""), Ln("close", "gest", "")}
           [] kd = "wpa" -> {Ln("open", k, v) : k \in TextKeys, v \in Vals}
                            \cup {Ln("close", "", "")}
           [] kd = "ini" -> {Ln("open", Repo, ""), Ln("open", "other", "")}
           [] OTHER -> {}

TextInit ==
    /\ kind \in Kinds
    /\ text \in BoundedSeq(LinesOf(kind), MaxLines)
    /\ before = text /\ edit = NoEdit /\ edits = 0

\* One edit from a screen: read the file, transform it, write it back.
EditText(k, v) ==
    /\ edits < MaxEdits
    /\ v = "" => kind \in Removers
    /\ before' = text
    /\ text' = ApplyEdit(kind, text, k, v)
    /\ edit' = [key |-> k, val |-> v]
    /\ edits' = edits + 1
    /\ UNCHANGED kind

TextNext == \E k \in TextKeys, v \in Vals \cup {""} : EditText(k, v)

-----------------------------------------------------------------------------
(* Properties *)

Edited == edits > 0
Wanted == IF edit.val = "" THEN Absent ELSE edit.val
\* The files a transform is made for: any file when it removes all of the
\* key's lines (network blocks must be closed), else one that mentions a key
\* once.
Fit(kd, t) ==
    /\ kd \in ReplaceFirstKinds => Unambiguous(t)
    /\ kd = "wpa" => Balanced(t)

\* After an edit GeST's own reader shows the value just written: in every
\* file for the transforms that remove all of the key's lines first, and in a
\* file that mentions a key once for the replace-first ones.
ReadBack ==
    (Edited /\ Fit(kind, before))
        => ReadValue(kind, text, edit.key) = Wanted

\* The program that owns the file takes the value GeST wrote, under the same
\* conditions: sshd's first line outside Match, the shell's last assignment,
\* doas' last rule, one line per atom.  (A doas rule of the user's own stays
\* in force when GeST's block is removed.)
ConsumerSees ==
    (Edited /\ Fit(kind, before)
        /\ (kind = "doas" => edit.val # ""))
        => Consumer(kind, text, edit.key) = Wanted

\* An edit of one key changes what is read for no other key: set_conf_value,
\* set_fields, render_conf and the others touch the edited entry only, and
\* apply_settings writes back the very values it showed.  (The doas block
\* holds a single policy.)
OthersKept ==
    (Edited /\ kind # "doas"
        /\ (kind = "wpa" => Balanced(before)))
        => \A k \in TextKeys \ {edit.key} :
               ReadValue(kind, text, k) = ReadValue(kind, before, k)

\* The user's own lines survive, in order: everything that is not the edited
\* key, GeST's block or a blank line.  Files that GeST renders whole do not
\* promise it, and an unterminated block takes the rest of the file with it.
ForeignOf(kd, t, k) ==
    LET mine(i) == \/ t[i].t \in {"set", "off"} /\ t[i].key = k
                   \/ kd = "sshd" /\ t[i].t = "set"
                   \/ t[i].t \in {"open", "close"}
                      /\ (kd = "wpa" => t[i].t = "close" \/ t[i].key = k)
                   \/ kd = "doas" /\ Inside(t, i, "gest")
                   \/ t[i] \in {Blank, Marker}
        inOwn(i) == kd = "wpa" /\ BlockStarts(t)[i] # 0
                    /\ t[BlockStarts(t)[i]].key = k
    IN  Pick(t, Positions(t, LAMBDA i : ~ mine(i) /\ ~ inOwn(i)))
ForeignKept ==
    (Edited /\ kind \notin WholeKinds
        /\ (kind \in {"doas", "wpa"} => Balanced(before)))
        => ForeignOf(kind, text, edit.key) = ForeignOf(kind, before, edit.key)

\* Saving the same value again changes nothing but blank lines: a screen that
\* is saved twice, or an install step that is retried, is harmless.
NoBlanks(t) == SelectSeq(t, LAMBDA l : l # Blank)
SaveTwice ==
    (Edited /\ Fit(kind, before))
        => LET again == ApplyEdit(kind, text, edit.key, edit.val)
           IN  ToSet(NoBlanks(again)) = ToSet(NoBlanks(text))
               /\ Len(NoBlanks(again)) = Len(NoBlanks(text))

\* What an edit does to a file, as GeST, the file's owner and the user see it.
TextInv == ReadBack /\ ConsumerSees /\ OthersKept /\ ForeignKept /\ SaveTwice
=============================================================================
