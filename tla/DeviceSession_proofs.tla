------------------------ MODULE DeviceSession_proofs ------------------------
(***************************************************************************)
(* Proofs about the device session (DeviceSession): a key frame that is    *)
(* returned is of the channel asked for, nothing stays behind a call, a    *)
(* preview that was left open makes the session unsafe to use, and an update *)
(* writes what it says and says what it wrote.                             *)
(*                                                                         *)
(* The invariant SInv ties a preview to the request it was started with,   *)
(* that request to its capture, and the capture to the call in progress.   *)
(* Identifiers are never given again, so that a late delivery can only     *)
(* reach the capture of its own preview, or none.                          *)
(***************************************************************************)
EXTENDS DeviceSession, SequenceTheorems, TLAPS

-----------------------------------------------------------------------------
(* The calls *)

Result == {None, "CHANNEL_ERROR", "NETWORK", "uncoded", "ValueError", "IndexError", "conflict", "updated",
           "write_unconfirmed", "verification_mismatch", "verification_unavailable"}
Finder == {"find_recordings", "disk_info", "find_logs"}
Encode == [Profile -> Setting]

\* A call of each kind; a key frame that is returned is of the channel asked for.
Ended   == [op : {None, "ask", "search_face_captures", "get_face_capture_image", "capture_jpeg", "capture_keyframe",
                  "set_node_encode", "update", "set_motion_config"} \cup Finder, at : {"done"}, result : Result]
Jpegs   == [op : {"capture_jpeg"}, at : {"second", "done"}, result : Result, form : {"data", "file"}]
Finding == [op : Finder, at : {"next", "close", "done"}, result : Result]
Export  == [op : {"export_config"}, at : {"fetch", "check", "unlink", "done"}, result : Result]
Node    == [op : {"set_node_encode"}, at : {"write", "done"}, result : Result, write : Encode]
Updated == [op : {"update"}, at : {"write", "verify", "return", "done"}, result : Result, profile : Profile,
            value : Setting, baseline : Setting, session : Encode]
Motion  == [op : {"set_motion_config"}, at : {"edit", "reread", "done"}, result : Result, value : Setting]
Capture == [op : {"capture_keyframe"}, at : {"play", "wait", "stop", "remove"}, result : Result,
            k : Nat, id : Nat, handle : Nat, arrived : BOOLEAN]
Shot    == {r \in [op : {"capture_keyframe"}, at : {"done"}, result : Result, asked : Channel,
                   frame : Channel \cup {None}] : r.result = None => r.frame = r.asked}

Call == Ended \cup Jpegs \cup Finding \cup Export \cup Node \cup Updated \cup Motion \cup Capture \cup Shot

Types == /\ call \in [Caller -> Call]
         /\ encode \in Encode /\ kept \in Encode \cup {None} /\ motion \in Setting

\* What a call in progress is.
LEMMA KindOf ==
  ASSUME NEW r \in Call
  PROVE  /\ r.at = "second" => r \in Jpegs
         /\ r.at \in {"next", "close"} => r \in Finding
         /\ r.op = "export_config" => r \in Export
         /\ r.at = "write" /\ r.op = "set_node_encode" => r \in Node
         /\ r.at \in {"write", "verify", "return"} /\ r.op = "update" => r \in Updated
         /\ Updating(r) => r \in Updated
         /\ r.at \in {"edit", "reread"} => r \in Motion
         /\ r.op = "capture_keyframe" /\ r.at # "done" => r \in Capture
         /\ r.at \in {"play", "wait", "stop", "remove"} => r \in Capture
         /\ r.at = "check" => r.op = "export_config"
BY DEF Call, Ended, Jpegs, Finding, Export, Node, Updated, Motion, Capture, Shot, Finder, Updating

\* A call with another place and result.
With(r, l, e) == [r EXCEPT !.at = l, !.result = e]
To(r, l) == [r EXCEPT !.at = l]

\* A call that moves on keeps its other fields.
LEMMA CallMoves ==
  ASSUME call \in [Caller -> Call], NEW c \in Caller
  PROVE  /\ \A e : Finish(c, e) => call' = [call EXCEPT ![c] = With(call[c], "done", e)]
         /\ \A l : Move(c, l) => call' = [call EXCEPT ![c] = To(call[c], l)]
         /\ \A l, e : call' = [call EXCEPT ![c].at = l, ![c].result = e] =>
              call' = [call EXCEPT ![c] = With(call[c], l, e)]
         /\ \A r : call' = [call EXCEPT ![c] = r] => call'[c] = r
BY DEF Finish, Move, With, To

\* Calls that touch no stream, enumeration or backup.
Simple(r) == r \in Call /\ (r.at = "done" \/ r.op \notin {"capture_keyframe", "export_config"} \cup Finder)

Plain(c) ==
  /\ Simple(call[c]) /\ call' = [call EXCEPT ![c] = call'[c]] /\ Simple(call'[c])
  /\ UNCHANGED <<live, grab, request, preview, finds, backup>>
  /\ encode' \in Encode /\ kept' \in Encode \cup {None} /\ motion' \in Setting

\* Every error is of a known kind.
LEMMA Errors ==
  /\ Codes \subseteq Result /\ None \in Result /\ "uncoded" \in Result
  /\ \A symbol : Refusals(symbol) \subseteq Result
  /\ \A o : Outcomes(o) \subseteq Result
  /\ Devices \subseteq Result
  /\ \A form : JpegErrors(form) \subseteq Result
  /\ \A a : FaceError(a) \in Result
<1>1. Codes \subseteq Result /\ None \in Result /\ "uncoded" \in Result
  BY DEF Codes, Result
<1>2. \A symbol : Refusals(symbol) \subseteq Result
  BY <1>1 DEF Refusals
<1>3. \A o : Outcomes(o) \subseteq Result
  <2> SUFFICES ASSUME NEW o PROVE Outcomes(o) \subseteq Result
    OBVIOUS
  <2>1. "IndexError" \in Result
    BY DEF Result
  <2>2. Outcomes(o) \in {Codes \cup {None, "IndexError"}, {None} \cup Refusals(o), Codes \cup {None}}
    BY DEF Outcomes
  <2> QED BY <1>1, <1>2, <2>1, <2>2
<1>4. Devices \subseteq Result
  BY <1>1 DEF Devices
<1>5. \A form : JpegErrors(form) \subseteq Result
  BY <1>1, <1>2 DEF JpegErrors
<1>6. \A a : FaceError(a) \in Result
  BY <1>1 DEF FaceError
<1> QED BY <1>1, <1>2, <1>3, <1>4, <1>5, <1>6

\* A call of one native function.
LEMMA SingleOK ==
  ASSUME NEW o \in {"ask", "search_face_captures", "get_face_capture_image", "capture_jpeg", "capture_keyframe",
                    "set_node_encode", "update", "set_motion_config"} \cup Finder, NEW e \in Result
  PROVE  Simple(Single(o, e)) /\ Single(o, e).at = "done" /\ Single(o, e).op = o /\ Single(o, e).result = e
<1>1. Single(o, e) \in Ended
  BY DEF Single, Ended
<1>2. Single(o, e).at = "done" /\ Single(o, e).op = o /\ Single(o, e).result = e
  BY DEF Single
<1> QED BY <1>1, <1>2 DEF Simple, Call

\* A call begins.
LEMMA Begun ==
  ASSUME Types, NEW c \in Caller, Free(c), NEW r, Begin(c, r), r \in Call
  PROVE  call' = [call EXCEPT ![c] = call'[c]] /\ call'[c] = r /\ Simple(call[c])
<1>1. call \in [Caller -> Call] /\ call' = [call EXCEPT ![c] = r]
  BY DEF Types, Begin
<1>2. call'[c] = r
  BY <1>1
<1> QED BY <1>1, <1>2 DEF Free, Simple

\* What the device serves.
LEMMA ServedOK ==
  ASSUME Types, NEW k \in Encode \cup {None}
  PROVE  Served(k) \in Encode /\ \A p \in Profile, v \in Setting : Patched(k, p, v) \in Encode
<1>1. Served(k) \in Encode
  BY DEF Served, Types
<1>2. ASSUME NEW p \in Profile, NEW v \in Setting PROVE Patched(k, p, v) \in Encode
  BY <1>1 DEF Patched, Encode
<1> QED BY <1>1, <1>2

\* Queries, pictures and their second try.
LEMMA AskPlain ==
  ASSUME Types, NEW c \in Caller, Ask(c) \/ AskFaces(c) \/ Jpeg(c) \/ JpegAgain(c)
  PROVE  Plain(c)
<1>0. call \in [Caller -> Call] /\ encode \in Encode /\ kept \in Encode \cup {None} /\ motion \in Setting
  BY DEF Types
<1>1. CASE Ask(c)
  <2>1. /\ Free(c) /\ UNCHANGED <<live, grab, request, preview, finds, backup, encode, motion>>
        /\ kept' = Served(kept) \/ kept' = kept
    BY <1>1 DEF Ask, stream
  <2>2. PICK o : \E e \in (IF o = "record_devices" THEN Devices ELSE Outcomes(o)) : Begin(c, Single("ask", e))
    BY <1>1, Zenon DEF Ask
  <2>3. PICK e \in (IF o = "record_devices" THEN Devices ELSE Outcomes(o)) : Begin(c, Single("ask", e))
    BY <2>2
  <2>r. e \in Result
    BY <2>3, Errors
  <2>4. Simple(Single("ask", e))
    BY <2>r, SingleOK
  <2>5. call' = [call EXCEPT ![c] = call'[c]] /\ call'[c] = Single("ask", e) /\ Simple(call[c])
    BY <2>1, <2>3, <2>4, Begun DEF Simple
  <2>6. kept' \in Encode \cup {None}
    BY <1>0, <2>1, ServedOK
  <2> QED BY <1>0, <2>1, <2>4, <2>5, <2>6 DEF Plain
<1>2. CASE AskFaces(c)
  <2>1. Free(c) /\ UNCHANGED <<live, grab, request, preview, finds, backup, encode, kept, motion>>
    BY <1>2 DEF AskFaces, stream, device
  <2>2. PICK o \in {"search_face_captures", "get_face_capture_image"},
             e \in Refusals("NET_SDK_FaceMatchOperate") \cup {FaceError(a) : a \in Answer} \cup {"ValueError"} :
          Begin(c, Single(o, e))
    BY <1>2, Zenon DEF AskFaces
  <2>3. e \in Result
    <3>1. "ValueError" \in Result
      BY DEF Result
    <3> QED BY <2>2, <3>1, Errors
  <2>4. Simple(Single(o, e))
    BY <2>3, SingleOK
  <2>5. call' = [call EXCEPT ![c] = call'[c]] /\ call'[c] = Single(o, e) /\ Simple(call[c])
    BY <2>1, <2>2, <2>4, Begun DEF Simple
  <2> QED BY <1>0, <2>1, <2>4, <2>5 DEF Plain
<1>3. CASE Jpeg(c)
  <2>1. Free(c) /\ UNCHANGED <<live, grab, request, preview, finds, backup, encode, kept, motion>>
    BY <1>3 DEF Jpeg, stream, device
  <2>2. PICK form \in {"data", "file"} :
          \/ Begin(c, Single("capture_jpeg", None))
          \/ \E e \in JpegErrors(form) :
               Begin(c, [op |-> "capture_jpeg", at |-> "second", result |-> e, form |-> form])
    BY <1>3, Zenon DEF Jpeg
  <2>3. Simple(Single("capture_jpeg", None))
    BY Errors, SingleOK
  <2>4. ASSUME NEW e \in JpegErrors(form)
        PROVE  Simple([op |-> "capture_jpeg", at |-> "second", result |-> e, form |-> form])
    <3>1. [op |-> "capture_jpeg", at |-> "second", result |-> e, form |-> form] \in Jpegs
      BY Errors DEF Jpegs
    <3> QED BY <3>1 DEF Simple, Call, Finder
  <2>5. PICK r : Simple(r) /\ Begin(c, r)
    BY <2>2, <2>3, <2>4
  <2>6. call' = [call EXCEPT ![c] = call'[c]] /\ call'[c] = r /\ Simple(call[c])
    BY <2>1, <2>5, Begun DEF Simple
  <2> QED BY <1>0, <2>1, <2>5, <2>6 DEF Plain
<1>4. CASE JpegAgain(c)
  <2>1. /\ call[c].op = "capture_jpeg" /\ call[c].at = "second"
        /\ UNCHANGED <<live, grab, request, preview, finds, backup, encode, kept, motion>>
    BY <1>4 DEF JpegAgain, stream, device, At
  <2>2. PICK form : \E e \in {None} \cup JpegErrors(form) : Finish(c, e)
    BY <1>4, Zenon DEF JpegAgain
  <2>e. PICK e \in {None} \cup JpegErrors(form) : Finish(c, e)
    BY <2>2
  <2>3. call[c] \in Jpegs /\ e \in Result
    BY <1>0, <2>1, <2>e, KindOf, Errors
  <2> DEFINE r == With(call[c], "done", e)
  <2>4. r \in Jpegs /\ r.at = "done"
    BY <2>3 DEF Jpegs, With
  <2>5. call' = [call EXCEPT ![c] = r] /\ call'[c] = r
    BY <1>0, <2>e, CallMoves
  <2> HIDE DEF r
  <2>6. Simple(call[c]) /\ Simple(r)
    BY <1>0, <2>1, <2>4 DEF Simple, Call, Finder
  <2> QED BY <1>0, <2>1, <2>5, <2>6 DEF Plain
<1> QED BY <1>1, <1>2, <1>3, <1>4

\* A call of c goes on or ends where it left off.
LEMMA EndsPlain ==
  ASSUME Types, NEW c \in Caller, NEW r, call' = [call EXCEPT ![c] = r], r \in Call, Simple(call[c]),
         r.at = "done" \/ (r.op = call[c].op /\ call[c].at # "done"),
         UNCHANGED <<live, grab, request, preview, finds, backup>>,
         encode' \in Encode, kept' \in Encode \cup {None}, motion' \in Setting
  PROVE  Plain(c)
<1>1. call'[c] = r
  BY DEF Types
<1>2. Simple(r)
  BY DEF Simple
<1> QED BY <1>1, <1>2 DEF Plain

\* Encode profiles set in one session.
LEMMA SetNodePlain ==
  ASSUME Types, NEW c \in Caller, SetNode(c) \/ SetNodeWrite(c)
  PROVE  Plain(c)
<1>0. call \in [Caller -> Call] /\ encode \in Encode /\ kept \in Encode \cup {None} /\ motion \in Setting
  BY DEF Types
<1>1. CASE SetNode(c)
  <2>1. /\ Free(c) /\ UNCHANGED <<live, grab, request, preview, finds, backup, encode, motion>>
        /\ kept' = Served(kept)
    BY <1>1 DEF SetNode, stream
  <2>2. PICK p \in Profile, v \in Setting :
          \/ Begin(c, [op |-> "set_node_encode", at |-> "write", result |-> None, write |-> Patched(kept, p, v)])
          \/ \E e \in Codes \cup {"uncoded"} : Begin(c, Single("set_node_encode", e))
    BY <1>1, Zenon DEF SetNode
  <2> DEFINE w == [op |-> "set_node_encode", at |-> "write", result |-> None, write |-> Patched(kept, p, v)]
  <2>3. w \in Node
    <3>1. Patched(kept, p, v) \in Encode
      BY <1>0, ServedOK
    <3> HIDE DEF Patched
    <3> QED BY <3>1, Errors DEF Node
  <2>4. Simple(w)
    BY <2>3 DEF Simple, Call, Finder
  <2>5. \A e \in Codes \cup {"uncoded"} : Simple(Single("set_node_encode", e))
    BY Errors, SingleOK
  <2> HIDE DEF w
  <2>6. PICK r : Simple(r) /\ Begin(c, r)
    BY <2>2, <2>4, <2>5 DEF w
  <2>7. call' = [call EXCEPT ![c] = call'[c]] /\ call'[c] = r /\ Simple(call[c])
    BY <2>1, <2>6, Begun DEF Simple
  <2>8. kept' \in Encode
    BY <1>0, <2>1, ServedOK
  <2> QED BY <1>0, <2>1, <2>6, <2>7, <2>8 DEF Plain
<1>2. CASE SetNodeWrite(c)
  <2>1. /\ call[c].op = "set_node_encode" /\ call[c].at = "write"
        /\ UNCHANGED <<live, grab, request, preview, finds, backup, kept, motion>>
    BY <1>2 DEF SetNodeWrite, stream, At
  <2>2. call[c] \in Node
    BY <1>0, <2>1, KindOf
  <2>3. (\E e \in Codes \cup {None, "uncoded"} : Finish(c, e)) /\ encode' \in {encode, call[c].write}
    BY <1>2 DEF SetNodeWrite
  <2>4. PICK e \in Result : Finish(c, e)
    BY <2>3, Errors
  <2>5. encode' \in Encode
    BY <1>0, <2>2, <2>3 DEF Node
  <2> DEFINE r == With(call[c], "done", e)
  <2>6. r \in Node /\ r.at = "done"
    BY <2>2 DEF Node, With
  <2>7. call' = [call EXCEPT ![c] = r]
    BY <1>0, <2>4, CallMoves
  <2> HIDE DEF r
  <2>8. r \in Call /\ Simple(call[c])
    BY <1>0, <2>1, <2>6 DEF Simple, Call, Finder
  <2> QED BY <1>0, <2>1, <2>5, <2>6, <2>7, <2>8, EndsPlain
<1> QED BY <1>1, <1>2

\* A guarded update of an encode profile.
LEMMA UpdatePlain ==
  ASSUME Types, NEW c \in Caller, Update(c) \/ UpdateWrite(c) \/ UpdateVerify(c) \/ UpdateReturn(c)
  PROVE  Plain(c)
<1>0. call \in [Caller -> Call] /\ encode \in Encode /\ kept \in Encode \cup {None} /\ motion \in Setting
  BY DEF Types
<1>r. {"updated", "conflict", "write_unconfirmed", "verification_mismatch", "verification_unavailable"} \subseteq Result
  BY DEF Result
<1>1. CASE Update(c)
  <2>1. Free(c) /\ UNCHANGED <<live, grab, request, preview, finds, backup, encode, kept, motion>>
    BY <1>1 DEF Update, stream, device
  <2>2. PICK p \in Profile, v, baseline \in Setting :
          \/ IF encode[p] = baseline
             THEN Begin(c, [op |-> "update", at |-> "write", result |-> None, profile |-> p,
                            value |-> v, baseline |-> baseline, session |-> encode])
             ELSE Begin(c, Single("update", "conflict"))
          \/ \E e \in Codes : Begin(c, Single("update", e))
    BY <1>1, Zenon DEF Update
  <2> DEFINE w == [op |-> "update", at |-> "write", result |-> None, profile |-> p,
                   value |-> v, baseline |-> baseline, session |-> encode]
  <2>3. w \in Updated
    BY <1>0, Errors DEF Updated
  <2>4. Simple(w)
    BY <2>3 DEF Simple, Call, Finder
  <2>5. \A e \in Codes \cup {"conflict"} : Simple(Single("update", e))
    BY <1>r, Errors, SingleOK
  <2> HIDE DEF w
  <2>6. PICK r : Simple(r) /\ Begin(c, r)
    BY <2>2, <2>4, <2>5 DEF w
  <2>7. call' = [call EXCEPT ![c] = call'[c]] /\ call'[c] = r /\ Simple(call[c])
    BY <2>1, <2>6, Begun DEF Simple
  <2> QED BY <1>0, <2>1, <2>6, <2>7 DEF Plain
<1>2. CASE UpdateWrite(c)
  <2>1. /\ call[c].op = "update" /\ call[c].at = "write"
        /\ UNCHANGED <<live, grab, request, preview, finds, backup, kept, motion>>
    BY <1>2 DEF UpdateWrite, stream, At
  <2>2. call[c] \in Updated
    BY <1>0, <2>1, KindOf
  <2>3. PICK w : w = Patched(call[c].session, call[c].profile, call[c].value)
    OBVIOUS
  <2>4. /\ Move(c, "verify") \/ Finish(c, "write_unconfirmed")
        /\ encode' \in {encode, w}
    BY <1>2, <2>3 DEF UpdateWrite
  <2>5. w \in Encode
    BY <2>2, <2>3, ServedOK DEF Updated
  <2>6. PICK r \in {To(call[c], "verify"), With(call[c], "done", "write_unconfirmed")} : call' = [call EXCEPT ![c] = r]
    BY <1>0, <2>4, CallMoves
  <2>7. r \in Updated /\ (r.at = "done" \/ r.op = call[c].op)
    BY <1>r, <2>2, <2>6 DEF Updated, With, To
  <2>8. r \in Call /\ Simple(call[c])
    BY <1>0, <2>1, <2>7 DEF Simple, Call, Finder
  <2> QED BY <1>0, <2>1, <2>4, <2>5, <2>6, <2>7, <2>8, EndsPlain
<1>3. CASE UpdateVerify(c)
  <2>1. /\ call[c].op = "update" /\ call[c].at = "verify"
        /\ UNCHANGED <<live, grab, request, preview, finds, backup, encode, kept, motion>>
    BY <1>3 DEF UpdateVerify, stream, device, At
  <2>2. call[c] \in Updated
    BY <1>0, <2>1, KindOf
  <2>3. \E l \in {"return", "done"}, e \in {"updated", "verification_mismatch", "verification_unavailable"} :
           call' = [call EXCEPT ![c].at = l, ![c].result = e]
    BY <1>3 DEF UpdateVerify, Finish
  <2>v. PICK l \in {"return", "done"}, e \in {"updated", "verification_mismatch", "verification_unavailable"} :
           call' = [call EXCEPT ![c].at = l, ![c].result = e]
    BY <2>3
  <2> DEFINE r == With(call[c], l, e)
  <2>u. \A k, x : call' = [call EXCEPT ![c].at = k, ![c].result = x] =>
           call' = [call EXCEPT ![c] = With(call[c], k, x)]
    BY <1>0, CallMoves
  <2>4. call' = [call EXCEPT ![c] = r]
    BY <2>v, <2>u, Zenon
  <2>w. l \in {"write", "verify", "return", "done"} /\ e \in Result
    BY <1>r
  <2>5. r \in Updated /\ (r.at = "done" \/ r.op = call[c].op)
    BY <2>2, <2>w DEF Updated, With
  <2> HIDE DEF r
  <2>6. r \in Call /\ Simple(call[c])
    BY <1>0, <2>1, <2>5 DEF Simple, Call, Finder
  <2> QED BY <1>0, <2>1, <2>4, <2>5, <2>6, EndsPlain
<1>4. CASE UpdateReturn(c)
  <2>1. /\ call[c].op = "update" /\ call[c].at = "return" /\ Finish(c, call[c].result)
        /\ UNCHANGED <<live, grab, request, preview, finds, backup, encode, kept, motion>>
    BY <1>4 DEF UpdateReturn, stream, device, At
  <2>2. call[c] \in Updated
    BY <1>0, <2>1, KindOf
  <2> DEFINE r == With(call[c], "done", call[c].result)
  <2>3. r \in Updated /\ r.at = "done"
    BY <2>2 DEF Updated, With
  <2>4. call' = [call EXCEPT ![c] = r]
    BY <1>0, <2>1, CallMoves
  <2> HIDE DEF r
  <2>5. r \in Call /\ Simple(call[c])
    BY <1>0, <2>1, <2>3 DEF Simple, Call, Finder
  <2> QED BY <1>0, <2>1, <2>3, <2>4, <2>5, EndsPlain
<1> QED BY <1>1, <1>2, <1>3, <1>4

\* The motion settings.
LEMMA MotionPlain ==
  ASSUME Types, NEW c \in Caller, MotionRead(c) \/ MotionEdit(c) \/ MotionReread(c)
  PROVE  Plain(c)
<1>0. call \in [Caller -> Call] /\ encode \in Encode /\ kept \in Encode \cup {None} /\ motion \in Setting
  BY DEF Types
<1>r. Codes \cup {None, "uncoded", "ValueError"} \subseteq Result
  BY Errors DEF Result
<1>1. CASE MotionRead(c)
  <2>1. Free(c) /\ UNCHANGED <<live, grab, request, preview, finds, backup, encode, kept, motion>>
    BY <1>1 DEF MotionRead, stream, device
  <2>2. PICK v \in Setting :
          \/ IF motion = v THEN Begin(c, Single("set_motion_config", None))
             ELSE Begin(c, [op |-> "set_motion_config", at |-> "edit", result |-> None, value |-> v])
          \/ \E e \in Codes \cup {"uncoded", "ValueError"} : Begin(c, Single("set_motion_config", e))
    BY <1>1, Zenon DEF MotionRead
  <2> DEFINE w == [op |-> "set_motion_config", at |-> "edit", result |-> None, value |-> v]
  <2>3. w \in Motion
    BY <1>0, Errors DEF Motion
  <2>4. Simple(w)
    BY <2>3 DEF Simple, Call, Finder
  <2>5. \A e \in Codes \cup {None, "uncoded", "ValueError"} : Simple(Single("set_motion_config", e))
    BY <1>r, SingleOK
  <2> HIDE DEF w
  <2>6. PICK r : Simple(r) /\ Begin(c, r)
    BY <2>2, <2>4, <2>5 DEF w
  <2>7. call' = [call EXCEPT ![c] = call'[c]] /\ call'[c] = r /\ Simple(call[c])
    BY <2>1, <2>6, Begun DEF Simple
  <2> QED BY <1>0, <2>1, <2>6, <2>7 DEF Plain
<1>2. CASE MotionEdit(c)
  <2>1. /\ call[c].op = "set_motion_config" /\ call[c].at = "edit"
        /\ UNCHANGED <<live, grab, request, preview, finds, backup, encode, kept>>
    BY <1>2 DEF MotionEdit, stream, At
  <2>2. call[c] \in Motion
    BY <1>0, <2>1, KindOf
  <2>3. /\ Move(c, "reread") \/ \E e \in Codes \cup {"uncoded"} : Finish(c, e)
        /\ motion' \in {motion, call[c].value}
    BY <1>2 DEF MotionEdit
  <2>4. motion' \in Setting
    BY <1>0, <2>2, <2>3 DEF Motion
  <2>5. PICK r : /\ call' = [call EXCEPT ![c] = r]
                 /\ r = To(call[c], "reread") \/ \E e \in Result : r = With(call[c], "done", e)
    BY <1>0, <1>r, <2>3, CallMoves
  <2>6. r \in Motion /\ (r.at = "done" \/ r.op = call[c].op)
    BY <2>2, <2>5 DEF Motion, With, To
  <2>7. r \in Call /\ Simple(call[c])
    BY <1>0, <2>1, <2>6 DEF Simple, Call, Finder
  <2> QED BY <1>0, <2>1, <2>4, <2>5, <2>6, <2>7, EndsPlain
<1>3. CASE MotionReread(c)
  <2>1. /\ call[c].op = "set_motion_config" /\ call[c].at = "reread"
        /\ UNCHANGED <<live, grab, request, preview, finds, backup, encode, kept, motion>>
    BY <1>3 DEF MotionReread, stream, device, At
  <2>2. call[c] \in Motion
    BY <1>0, <2>1, KindOf
  <2>3. PICK e \in Codes \cup {None, "uncoded"} : Finish(c, e)
    BY <1>3 DEF MotionReread
  <2> DEFINE r == With(call[c], "done", e)
  <2>4. r \in Motion /\ r.at = "done"
    BY <1>r, <2>2 DEF Motion, With
  <2>5. call' = [call EXCEPT ![c] = r]
    BY <1>0, <2>3, CallMoves
  <2> HIDE DEF r
  <2>6. r \in Call /\ Simple(call[c])
    BY <1>0, <2>1, <2>4 DEF Simple, Call, Finder
  <2> QED BY <1>0, <2>1, <2>4, <2>5, <2>6, EndsPlain
<1> QED BY <1>1, <1>2, <1>3

-----------------------------------------------------------------------------
(* The inductive invariant *)

Grab == {g \in [channel : Channel, over : BOOLEAN, codec : Channel \cup {None},
                frame : Channel \cup {None}, error : BOOLEAN] : g.frame \in {None, g.channel}}
Preview == [user : Nat, channel : Channel, caller : Caller, open : BOOLEAN,
            thread : {"idle", "called", "data"}, k : Nat]
Temporary == {None, "empty", "whole", "partial"}

\* A preview delivers to the request it was started with, of its own channel.
PreviewOK(v, g) == /\ v.user \in 1..Len(g) /\ g[v.user].channel = v.channel
                   /\ v.thread = "data" => v.k = v.user

Streams == /\ grab \in Seq(Grab) /\ preview \in Seq(Preview)
           /\ \A h \in 1..Len(preview) : PreviewOK(preview[h], grab)

Capturing(r) == r.op = "capture_keyframe" /\ r.at # "done"
Exporting(r) == r.op = "export_config" /\ r.at # "done"

\* A capture in progress, with n captures begun and the previews p: one that could not
\* stop its preview ends with an error.
CaptureOK(r, n, p) ==
  /\ r.id = r.k /\ r.k \in 1..n /\ r.handle \in 0..Len(p)
  /\ r.at = "play" => r.handle = 0
  /\ r.at \in {"wait", "stop"} => r.handle # 0
  /\ r.at = "remove" /\ r.handle # 0 /\ p[r.handle].open => r.result = "uncoded"

Captures == \A c \in Caller : Capturing(call[c]) => CaptureOK(call[c], Len(grab), preview)

\* Every request is that of a capture in progress.
Requests == \A i \in DOMAIN request :
              /\ i \in 1..Len(grab) /\ request[i] = i
              /\ \E c \in Caller : Capturing(call[c]) /\ call[c].id = i

Finds == finds \subseteq Caller /\ \A c \in finds : call[c].at \in {"next", "close"}

Backup == /\ backup \in [at : {"old", "whole"}, temporary : [Caller -> Temporary]]
          /\ \A c \in Caller : backup.temporary[c] # None => Exporting(call[c])
          /\ \A c \in Caller : call[c].at = "check" => backup.temporary[c] \in {"whole", "empty"}

SInv == Types /\ Streams /\ Captures /\ Requests /\ Finds /\ Backup

\* The invariant holds at the start.
LEMMA SInvInit == Init => SInv
<1> SUFFICES ASSUME Init PROVE SInv
  OBVIOUS
<1>1. NoCall \in Ended /\ NoCall.at = "done"
  BY Errors DEF NoCall, Ended
<1>2. call = [c \in Caller |-> NoCall] /\ NoCall \in Call
  BY <1>1 DEF Init, Call
<1>3. \A c \in Caller : call[c].at = "done"
  BY <1>1, <1>2
<1>4. Types
  <2>1. [p \in Profile |-> 0] \in Encode /\ 0 \in Setting
    BY DEF Encode, Setting
  <2> QED BY <1>2, <2>1 DEF Types, Init
<1>5. Streams
  BY DEF Init, Streams
<1>6. Captures /\ Requests
  BY <1>3 DEF Init, Captures, Requests, Capturing
<1>7. Finds
  BY DEF Init, Finds
<1>8. Backup
  BY <1>3 DEF Init, Backup, Temporary
<1> QED BY <1>4, <1>5, <1>6, <1>7, <1>8 DEF SInv

\* The call of c alone changes, into one of the model.
Mine(c) == call' = [call EXCEPT ![c] = call'[c]] /\ call'[c] \in Call

\* The calls of the others stay.
LEMMA Others ==
  ASSUME Types, NEW c \in Caller, Mine(c)
  PROVE  /\ call' \in [Caller -> Call]
         /\ \A d \in Caller : d # c => call'[d] = call[d]
BY DEF Types, Mine

\* Streams do not change where no capture does.
LEMMA StreamsApart ==
  ASSUME Types, Streams, Captures, Requests, NEW c \in Caller, Mine(c),
         ~Capturing(call[c]), ~Capturing(call'[c]), UNCHANGED <<grab, request, preview>>
  PROVE  Streams' /\ Captures' /\ Requests'
<1>1. \A d \in Caller : d # c => call'[d] = call[d]
  BY Others
<1>2. Streams'
  BY DEF Streams
<1>3. Captures'
  <2>1. ASSUME NEW d \in Caller, Capturing(call'[d]) PROVE CaptureOK(call'[d], Len(grab'), preview')
    <3>1. d # c /\ call'[d] = call[d] /\ Capturing(call[d])
      BY <1>1, <2>1
    <3>2. CaptureOK(call[d], Len(grab), preview)
      BY <3>1 DEF Captures
    <3> QED BY <3>1, <3>2
  <2> QED BY <2>1 DEF Captures
<1>4. Requests'
  <2> SUFFICES ASSUME NEW i \in DOMAIN request
               PROVE  /\ i \in 1..Len(grab) /\ request[i] = i
                      /\ \E d \in Caller : Capturing(call'[d]) /\ call'[d].id = i
    BY DEF Requests
  <2>1. i \in 1..Len(grab) /\ request[i] = i
    BY DEF Requests
  <2>2. PICK d \in Caller : Capturing(call[d]) /\ call[d].id = i
    BY DEF Requests
  <2>3. call'[d] = call[d]
    BY <1>1, <2>2
  <2> QED BY <2>1, <2>2, <2>3
<1> QED BY <1>2, <1>3, <1>4

\* Nor do enumerations and exports where the call is of another kind.
LEMMA FindsApart ==
  ASSUME Types, Finds, NEW c \in Caller, Mine(c), call[c].at \notin {"next", "close"}, UNCHANGED finds
  PROVE  Finds'
<1>1. \A d \in Caller : d # c => call'[d] = call[d]
  BY Others
<1> QED BY <1>1 DEF Finds

\* Nor does the destination of an export.
LEMMA BackupApart ==
  ASSUME Types, Backup, NEW c \in Caller, Mine(c), ~Exporting(call[c]), ~Exporting(call'[c]), UNCHANGED backup
  PROVE  Backup'
<1>1. \A d \in Caller : d # c => call'[d] = call[d]
  BY Others
<1>2. backup.temporary[c] = None
  BY DEF Backup
<1>3. call'[c].at # "check"
  BY KindOf DEF Exporting, Mine
<1>4. ASSUME NEW d \in Caller
      PROVE  /\ backup.temporary[d] # None => Exporting(call'[d])
             /\ call'[d].at = "check" => backup.temporary[d] \in {"whole", "empty"}
  BY <1>1, <1>2, <1>3, <1>4 DEF Backup
<1> QED BY <1>4 DEF Backup

\* What a simple call is not.
LEMMA SimpleNot ==
  ASSUME NEW r, Simple(r)
  PROVE  r \in Call /\ ~Capturing(r) /\ ~Exporting(r) /\ r.at \notin {"next", "close"}
<1>1. r \in Call /\ (r.at = "done" \/ r.op \notin {"capture_keyframe", "export_config"} \cup Finder)
  BY DEF Simple
<1>2. r.at \in {"next", "close"} => r.op \in Finder
  BY <1>1, KindOf DEF Finding
<1> QED BY <1>1, <1>2 DEF Capturing, Exporting

\* A plain call keeps the invariant.
LEMMA PlainKeeps ==
  ASSUME SInv, NEW c \in Caller, Plain(c)
  PROVE  SInv'
<1>0. Types /\ Streams /\ Captures /\ Requests /\ Finds /\ Backup
  BY DEF SInv
<1>1. Mine(c) /\ Simple(call[c]) /\ Simple(call'[c]) /\ UNCHANGED <<grab, request, preview, finds, backup>>
  BY DEF Plain, Mine, Simple
<1>2. Types'
  <2>1. call' \in [Caller -> Call]
    BY <1>0, <1>1, Others
  <2> QED BY <2>1 DEF Types, Plain
<1>3. Streams' /\ Captures' /\ Requests'
  BY <1>0, <1>1, SimpleNot, StreamsApart
<1>4. Finds' /\ Backup'
  BY <1>0, <1>1, SimpleNot, FindsApart, BackupApart
<1> QED BY <1>2, <1>3, <1>4 DEF SInv

\* Enumerations.
LEMMA FindKeeps ==
  ASSUME SInv, NEW c \in Caller, FindBegin(c) \/ FindNext(c) \/ FindClose(c)
  PROVE  SInv'
<1>0. /\ Types /\ Streams /\ Captures /\ Requests /\ Finds /\ Backup
      /\ call \in [Caller -> Call] /\ encode \in Encode /\ kept \in Encode \cup {None} /\ motion \in Setting
  BY DEF SInv, Types
<1>1. UNCHANGED <<live, grab, request, preview, backup, encode, kept, motion>>
  BY DEF FindBegin, FindNext, FindClose, stream, device
<1>2. /\ Mine(c) /\ call[c] \in Call /\ (call[c].at = "done" \/ call[c].op \in Finder)
      /\ call'[c] \in Ended \cup Finding
      /\ \/ finds' = finds \cup {c} /\ call'[c].at = "next"
         \/ finds' = finds /\ (c \in finds => call'[c].at \in {"next", "close"})
         \/ finds' = finds \ {c}
  <2>1. CASE FindBegin(c)
    <3>1. Free(c)
      BY <2>1 DEF FindBegin
    <3>2. PICK o \in Finder :
            \/ finds' = finds \cup {c} /\ Begin(c, [op |-> o, at |-> "next", result |-> None])
            \/ finds' = finds /\ \E e \in Codes : Begin(c, Single(o, e))
      BY <2>1, Zenon DEF FindBegin, Finder
    <3>3. [op |-> o, at |-> "next", result |-> None] \in Finding
      BY Errors DEF Finding
    <3>4. CASE finds' = finds \cup {c} /\ Begin(c, [op |-> o, at |-> "next", result |-> None])
      <4>1. /\ call' = [call EXCEPT ![c] = call'[c]] /\ call'[c] = [op |-> o, at |-> "next", result |-> None]
            /\ Simple(call[c])
        BY <1>0, <3>1, <3>3, <3>4, Begun DEF Call
      <4> QED BY <3>1, <3>3, <3>4, <4>1 DEF Mine, Free, Simple, Call
    <3>5. CASE finds' = finds /\ \E e \in Codes : Begin(c, Single(o, e))
      <4>1. PICK e \in Codes : Begin(c, Single(o, e))
        BY <3>5
      <4>2. Simple(Single(o, e)) /\ Single(o, e) \in Ended
        BY Errors, SingleOK DEF Single, Ended
      <4>3. /\ call' = [call EXCEPT ![c] = call'[c]] /\ call'[c] = Single(o, e) /\ Simple(call[c])
        BY <1>0, <3>1, <4>1, <4>2, Begun DEF Simple
      <4>4. c \notin finds
        BY <1>0, <3>1 DEF Finds, Free
      <4> QED BY <3>1, <3>5, <4>2, <4>3, <4>4 DEF Mine, Free, Simple
    <3> QED BY <3>2, <3>4, <3>5
  <2>2. CASE FindNext(c)
    <3>1. call[c].at = "next" /\ finds' = finds
      BY <2>2 DEF FindNext
    <3>2. call[c] \in Finding
      BY <1>0, <3>1, KindOf
    <3>3. call' = call \/ Move(c, "close") \/ call' = [call EXCEPT ![c].at = "close", ![c].result = "ValueError"]
      BY <2>2 DEF FindNext
    <3>4. PICK r \in {call[c], To(call[c], "close"), With(call[c], "close", "ValueError")} :
            call' = [call EXCEPT ![c] = r]
      BY <1>0, <3>3, CallMoves
    <3>5. "ValueError" \in Result
      BY DEF Result
    <3>6. r \in Finding /\ r.at \in {"next", "close"}
      BY <3>1, <3>2, <3>4, <3>5 DEF Finding, To, With
    <3>7. call'[c] = r
      BY <1>0, <3>4
    <3> QED BY <3>1, <3>2, <3>4, <3>6, <3>7 DEF Mine, Call, Finding
  <2>3. CASE FindClose(c)
    <3>1. call[c].at = "close" /\ finds' = finds \ {c} /\ Finish(c, call[c].result)
      BY <2>3 DEF FindClose
    <3>2. call[c] \in Finding
      BY <1>0, <3>1, KindOf
    <3>3. call' = [call EXCEPT ![c] = With(call[c], "done", call[c].result)]
      BY <1>0, <3>1, CallMoves
    <3>4. With(call[c], "done", call[c].result) \in Finding
      BY <3>2 DEF Finding, With
    <3>5. call'[c] = With(call[c], "done", call[c].result)
      BY <1>0, <3>3
    <3> QED BY <3>1, <3>2, <3>3, <3>4, <3>5 DEF Mine, Call, Finding
  <2> QED BY <2>1, <2>2, <2>3
<1>3. \A d \in Caller : d # c => call'[d] = call[d]
  BY <1>0, <1>2, Others
<1>4. ~Capturing(call[c]) /\ ~Exporting(call[c]) /\ ~Capturing(call'[c]) /\ ~Exporting(call'[c])
  BY <1>2 DEF Finder, Capturing, Exporting, Ended, Finding
<1>5. Types'
  BY <1>0, <1>1, <1>2, Others DEF Types
<1>6. Streams' /\ Captures' /\ Requests' /\ Backup'
  BY <1>0, <1>1, <1>2, <1>4, StreamsApart, BackupApart
<1>7. Finds'
  BY <1>0, <1>2, <1>3 DEF Finds
<1> QED BY <1>5, <1>6, <1>7 DEF SInv

\* Exports.
LEMMA ExportKeeps ==
  ASSUME SInv, NEW c \in Caller, ExportBegin(c) \/ Fetch(c) \/ Publish(c) \/ Unlink(c)
  PROVE  SInv'
<1>0. /\ Types /\ Streams /\ Captures /\ Requests /\ Finds /\ Backup
      /\ call \in [Caller -> Call] /\ encode \in Encode /\ kept \in Encode \cup {None} /\ motion \in Setting
  BY DEF SInv, Types
<1>1. UNCHANGED <<live, grab, request, preview, finds, encode, kept, motion>>
  BY DEF ExportBegin, Fetch, Publish, Unlink, stream, device
<1>b. /\ backup \in [at : {"old", "whole"}, temporary : [Caller -> Temporary]]
      /\ backup.at \in {"old", "whole"} /\ backup.temporary \in [Caller -> Temporary]
  BY <1>0 DEF Backup
<1>2. /\ Mine(c) /\ (call[c].at = "done" \/ call[c].op = "export_config")
      /\ call'[c] \in Export
      /\ \E f \in Temporary, at \in {"old", "whole"} :
           /\ backup' = [backup EXCEPT !.at = at, !.temporary[c] = f]
           /\ f # None => call'[c].at # "done"
           /\ call'[c].at = "check" => f \in {"whole", "empty"}
  <2>1. CASE ExportBegin(c)
    <3> DEFINE r == [op |-> "export_config", at |-> "fetch", result |-> None]
    <3>1. Free(c) /\ Begin(c, r) /\ backup' = [backup EXCEPT !.temporary[c] = "empty"]
      BY <2>1 DEF ExportBegin
    <3>2. r \in Export /\ r.at = "fetch"
      BY Errors DEF Export
    <3> HIDE DEF r
    <3>3. call' = [call EXCEPT ![c] = call'[c]] /\ call'[c] = r /\ Simple(call[c])
      BY <1>0, <3>1, <3>2, Begun DEF Call
    <3>4. "empty" \in Temporary /\ backup' = [backup EXCEPT !.at = backup.at, !.temporary[c] = "empty"]
      BY <1>b, <3>1 DEF Temporary
    <3> QED BY <1>b, <3>1, <3>2, <3>3, <3>4 DEF Mine, Free, Call
  <2>2. CASE Fetch(c)
    <3>1. call[c].op = "export_config" /\ call[c].at = "fetch"
      BY <2>2 DEF Fetch, At
    <3>2. call[c] \in Export
      BY <1>0, <3>1, KindOf
    <3>3. PICK f, r :
            /\ f \in Temporary
            /\ backup' = [backup EXCEPT !.temporary[c] = f] /\ call' = [call EXCEPT ![c] = r]
            /\ \/ r = To(call[c], "check") /\ f \in {"whole", "empty"}
               \/ \E e \in Codes : r = With(call[c], "unlink", e)
      <4>1. CASE (\E f \in {"whole", "empty"} : backup' = [backup EXCEPT !.temporary[c] = f]) /\ Move(c, "check")
        <5>1. PICK f \in {"whole", "empty"} : backup' = [backup EXCEPT !.temporary[c] = f]
          BY <4>1
        <5>2. call' = [call EXCEPT ![c] = To(call[c], "check")]
          BY <1>0, <4>1, CallMoves
        <5>3. f \in Temporary
          BY DEF Temporary
        <5> QED BY <5>1, <5>2, <5>3
      <4>2. CASE /\ \E f \in {"empty", "partial"} : backup' = [backup EXCEPT !.temporary[c] = f]
                 /\ \E e \in Codes : call' = [call EXCEPT ![c].at = "unlink", ![c].result = e]
        <5>1. PICK f \in {"empty", "partial"} : backup' = [backup EXCEPT !.temporary[c] = f]
          BY <4>2
        <5>2. PICK e \in Codes : call' = [call EXCEPT ![c].at = "unlink", ![c].result = e]
          BY <4>2
        <5>3. call' = [call EXCEPT ![c] = With(call[c], "unlink", e)]
          BY <1>0, <5>2 DEF With
        <5>4. f \in Temporary
          BY DEF Temporary
        <5> QED BY <5>1, <5>3, <5>4
      <4> QED BY <2>2, <4>1, <4>2 DEF Fetch
    <3>4. r \in Export /\ (r.at = "unlink" \/ (r.at = "check" /\ f \in {"whole", "empty"}))
      BY <3>2, <3>3, Errors DEF Export, To, With
    <3>5. call'[c] = r
      BY <1>0, <3>3
    <3>6. backup' = [backup EXCEPT !.at = backup.at, !.temporary[c] = f]
      BY <1>b, <3>3
    <3> QED BY <1>b, <3>1, <3>3, <3>4, <3>5, <3>6 DEF Mine, Call
  <2>3. CASE Publish(c)
    <3>1. call[c].op = "export_config" /\ call[c].at = "check"
      BY <2>3 DEF Publish, At
    <3>2. call[c] \in Export /\ backup.temporary[c] \in {"whole", "empty"}
      BY <1>0, <3>1, KindOf DEF Backup
    <3>3. \/ /\ backup.temporary[c] = "whole"
             /\ backup' = [backup EXCEPT !.at = "whole", !.temporary[c] = None] /\ Move(c, "unlink")
          \/ backup' = backup /\ call' = [call EXCEPT ![c].at = "unlink", ![c].result = "uncoded"]
      BY <2>3, <3>2 DEF Publish, Publishable
    <3>4. PICK r \in {To(call[c], "unlink"), With(call[c], "unlink", "uncoded")} : call' = [call EXCEPT ![c] = r]
      BY <1>0, <3>3, CallMoves
    <3>5. r \in Export /\ r.at = "unlink"
      BY <3>2, <3>4, Errors DEF Export, To, With
    <3>6. call'[c] = r
      BY <1>0, <3>4
    <3>7. \E f \in Temporary, at \in {"old", "whole"} : backup' = [backup EXCEPT !.at = at, !.temporary[c] = f]
      <4>1. CASE backup' = backup
        <5>1. backup = [backup EXCEPT !.at = backup.at, !.temporary[c] = backup.temporary[c]]
          BY <1>b
        <5> QED BY <1>b, <4>1, <5>1
      <4>2. CASE backup' = [backup EXCEPT !.at = "whole", !.temporary[c] = None]
        BY <4>2 DEF Temporary
      <4> QED BY <3>3, <4>1, <4>2
    <3> QED BY <3>1, <3>4, <3>5, <3>6, <3>7 DEF Mine, Call
  <2>4. CASE Unlink(c)
    <3>1. /\ call[c].op = "export_config" /\ Finish(c, call[c].result)
          /\ backup' = [backup EXCEPT !.temporary[c] = None]
      BY <2>4 DEF Unlink, At
    <3>2. call[c] \in Export
      BY <1>0, <3>1, KindOf
    <3>3. call' = [call EXCEPT ![c] = With(call[c], "done", call[c].result)]
      BY <1>0, <3>1, CallMoves
    <3>4. With(call[c], "done", call[c].result) \in Export /\ With(call[c], "done", call[c].result).at = "done"
      BY <3>2 DEF Export, With
    <3>5. call'[c] = With(call[c], "done", call[c].result)
      BY <1>0, <3>3
    <3>6. None \in Temporary /\ backup' = [backup EXCEPT !.at = backup.at, !.temporary[c] = None]
      BY <1>b, <3>1 DEF Temporary
    <3> QED BY <1>b, <3>1, <3>3, <3>4, <3>5, <3>6 DEF Mine, Call
  <2> QED BY <2>1, <2>2, <2>3, <2>4
<1>3. \A d \in Caller : d # c => call'[d] = call[d]
  BY <1>0, <1>2, Others
<1>4. ~Capturing(call[c]) /\ call[c].at \notin {"next", "close"} /\ ~Capturing(call'[c])
  <2>1. call[c].op = "export_config" => call[c] \in Export
    BY <1>0, KindOf
  <2> QED BY <1>2, <2>1 DEF Capturing, Export
<1>5. Types'
  BY <1>0, <1>1, <1>2, Others DEF Types
<1>6. Streams' /\ Captures' /\ Requests' /\ Finds'
  BY <1>0, <1>1, <1>2, <1>4, StreamsApart, FindsApart
<1>7. Backup'
  <2>1. PICK f \in Temporary, at \in {"old", "whole"} :
           /\ backup' = [backup EXCEPT !.at = at, !.temporary[c] = f]
           /\ f # None => call'[c].at # "done"
           /\ call'[c].at = "check" => f \in {"whole", "empty"}
    BY <1>2
  <2>2. /\ backup'.at = at /\ backup'.temporary = [backup.temporary EXCEPT ![c] = f]
        /\ backup' \in [at : {"old", "whole"}, temporary : [Caller -> Temporary]]
    BY <1>b, <2>1
  <2>3. backup'.temporary[c] = f /\ \A d \in Caller : d # c => backup'.temporary[d] = backup.temporary[d]
    BY <1>b, <2>2
  <2>4. call'[c].op = "export_config"
    BY <1>2 DEF Export
  <2>5. ASSUME NEW d \in Caller
        PROVE  /\ backup'.temporary[d] # None => Exporting(call'[d])
               /\ call'[d].at = "check" => backup'.temporary[d] \in {"whole", "empty"}
    BY <1>0, <1>3, <2>1, <2>3, <2>4 DEF Backup, Exporting
  <2> QED BY <2>2, <2>5 DEF Backup
<1> QED BY <1>5, <1>6, <1>7 DEF SInv

\* A longer sequence.
LEMMA Longer ==
  ASSUME NEW S, NEW s \in Seq(S), NEW x \in S
  PROVE  /\ Append(s, x) \in Seq(S) /\ Len(Append(s, x)) = Len(s) + 1 /\ Len(s) \in Nat
         /\ \A i \in 1..Len(s) : Append(s, x)[i] = s[i]
         /\ Append(s, x)[Len(s) + 1] = x
BY AppendProperties, LenProperties

\* A sequence with one element changed.
LEMMA Changed ==
  ASSUME NEW S, NEW s \in Seq(S), NEW i \in 1..Len(s), NEW x \in S
  PROVE  /\ [s EXCEPT ![i] = x] \in Seq(S) /\ Len([s EXCEPT ![i] = x]) = Len(s) /\ Len(s) \in Nat
         /\ [s EXCEPT ![i] = x][i] = x
         /\ \A j \in 1..Len(s) : j # i => [s EXCEPT ![i] = x][j] = s[j]
         /\ s[i] \in S
BY ExceptSeq, LenProperties, ElementOfSeq

\* Captures and previews may be added, and previews stop; a capture keeps its channel,
\* and a preview its request.
Grows ==
  /\ grab' \in Seq(Grab) /\ Len(grab) <= Len(grab')
  /\ \A i \in 1..Len(grab) : grab'[i].channel = grab[i].channel
  /\ preview' \in Seq(Preview) /\ Len(preview) <= Len(preview')
  /\ \A h \in 1..Len(preview) : preview'[h].open => preview[h].open
  /\ \A h \in 1..Len(preview') :
       \/ PreviewOK(preview'[h], grab)
       \/ PreviewOK(preview'[h], grab')

\* Streams that grow stay in order.
LEMMA GrowsStreams ==
  ASSUME Streams, Grows
  PROVE  Streams'
<1>1. Len(grab) \in Nat /\ Len(grab') \in Nat /\ Len(grab) <= Len(grab')
  BY LenProperties DEF Streams, Grows
<1>2. ASSUME NEW h \in 1..Len(preview'), PreviewOK(preview'[h], grab)
      PROVE  PreviewOK(preview'[h], grab')
  <2>1. preview'[h].user \in 1..Len(grab) /\ grab'[preview'[h].user].channel = grab[preview'[h].user].channel
    BY <1>2 DEF PreviewOK, Grows
  <2>2. preview'[h].user \in 1..Len(grab')
    BY <1>1, <2>1
  <2> QED BY <1>2, <2>1, <2>2 DEF PreviewOK
<1>3. \A h \in 1..Len(preview') : PreviewOK(preview'[h], grab')
  BY <1>2 DEF Grows
<1> QED BY <1>3 DEF Streams, Grows

\* What is so of a capture stays so.
LEMMA CaptureStays ==
  ASSUME Streams, Grows, NEW r \in Capture, CaptureOK(r, Len(grab), preview)
  PROVE  CaptureOK(r, Len(grab'), preview')
<1>1. /\ Len(grab) \in Nat /\ Len(grab') \in Nat /\ Len(grab) <= Len(grab')
      /\ Len(preview) \in Nat /\ Len(preview') \in Nat /\ Len(preview) <= Len(preview')
  BY LenProperties DEF Streams, Grows
<1>2. /\ r.id = r.k /\ r.k \in 1..Len(grab) /\ r.handle \in 0..Len(preview)
      /\ r.at = "play" => r.handle = 0
      /\ r.at \in {"wait", "stop"} => r.handle # 0
      /\ r.at = "remove" /\ r.handle # 0 /\ preview[r.handle].open => r.result = "uncoded"
  BY DEF CaptureOK
<1>3. r.k \in 1..Len(grab') /\ r.handle \in 0..Len(preview')
  BY <1>1, <1>2
<1>4. r.handle # 0 /\ preview'[r.handle].open => preview[r.handle].open
  BY <1>1, <1>2 DEF Grows
<1> QED BY <1>2, <1>3, <1>4 DEF CaptureOK

\* A step of the streams, and of the call of c.
LEMMA CaptureKeeps ==
  ASSUME Types, Streams, Captures, Requests, Grows, NEW c \in Caller, Mine(c),
         Capturing(call'[c]) => CaptureOK(call'[c], Len(grab'), preview'),
         \A i \in DOMAIN request' :
            \/ /\ i \in DOMAIN request /\ request'[i] = request[i]
               /\ Capturing(call[c]) /\ call[c].id = i => Capturing(call'[c]) /\ call'[c].id = i
            \/ /\ i \in 1..Len(grab') /\ request'[i] = i
               /\ Capturing(call'[c]) /\ call'[c].id = i
  PROVE  Streams' /\ Captures' /\ Requests'
<1>1. \A d \in Caller : d # c => call'[d] = call[d] /\ call[d] \in Call
  BY Others DEF Types
<1>2. /\ Len(grab) \in Nat /\ Len(grab') \in Nat /\ Len(grab) <= Len(grab')
  BY LenProperties DEF Streams, Grows
<1>3. Captures'
  <2>1. ASSUME NEW d \in Caller, Capturing(call'[d]) PROVE CaptureOK(call'[d], Len(grab'), preview')
    <3>1. CASE d = c
      BY <2>1, <3>1
    <3>2. CASE d # c
      <4>1. call'[d] = call[d] /\ call[d] \in Call /\ Capturing(call[d])
        BY <1>1, <2>1, <3>2
      <4>2. call[d] \in Capture /\ CaptureOK(call[d], Len(grab), preview)
        BY <4>1, KindOf DEF Captures, Capturing
      <4> QED BY <4>1, <4>2, CaptureStays
    <3> QED BY <3>1, <3>2
  <2> QED BY <2>1 DEF Captures
<1>4. ASSUME NEW i \in DOMAIN request'
      PROVE  /\ i \in 1..Len(grab') /\ request'[i] = i
             /\ \E d \in Caller : Capturing(call'[d]) /\ call'[d].id = i
  <2>1. CASE /\ i \in DOMAIN request /\ request'[i] = request[i]
             /\ Capturing(call[c]) /\ call[c].id = i => Capturing(call'[c]) /\ call'[c].id = i
    <3>1. i \in 1..Len(grab) /\ request[i] = i
      BY <2>1 DEF Requests
    <3>2. PICK d \in Caller : Capturing(call[d]) /\ call[d].id = i
      BY <2>1 DEF Requests
    <3>3. Capturing(call'[d]) /\ call'[d].id = i
      BY <1>1, <2>1, <3>2
    <3> QED BY <1>2, <2>1, <3>1, <3>3
  <2>2. CASE i \in 1..Len(grab') /\ request'[i] = i /\ Capturing(call'[c]) /\ call'[c].id = i
    BY <2>2
  <2> QED BY <2>1, <2>2
<1>5. Requests'
  BY <1>4 DEF Requests
<1> QED BY <1>3, <1>5, GrowsStreams

\* A step of the capture of c.
Shoots(c) ==
  /\ Mine(c) /\ (call[c].at = "done" \/ call[c] \in Capture)
  /\ call'[c] \in Capture \cup Shot \cup Ended
  /\ UNCHANGED <<finds, backup, encode, kept, motion>> /\ Grows
  /\ Capturing(call'[c]) => CaptureOK(call'[c], Len(grab'), preview')
  /\ \A i \in DOMAIN request' :
       \/ /\ i \in DOMAIN request /\ request'[i] = request[i]
          /\ Capturing(call[c]) /\ call[c].id = i => Capturing(call'[c]) /\ call'[c].id = i
       \/ /\ i \in 1..Len(grab') /\ request'[i] = i
          /\ Capturing(call'[c]) /\ call'[c].id = i

\* A step of a capture keeps the invariant.
LEMMA ShootsKeeps ==
  ASSUME SInv, NEW c \in Caller, Shoots(c)
  PROVE  SInv'
<1>0. Types /\ Streams /\ Captures /\ Requests /\ Finds /\ Backup
  BY DEF SInv
<1>1. Types'
  BY <1>0, Others DEF Types, Shoots
<1>2. Streams' /\ Captures' /\ Requests'
  BY <1>0, CaptureKeeps DEF Shoots
<1>3. call[c].at \notin {"next", "close"} /\ ~Exporting(call[c])
  BY DEF Shoots, Exporting, Capture
<1>4. ~Exporting(call'[c])
  BY DEF Shoots, Exporting, Capture, Shot, Ended
<1>5. Finds' /\ Backup'
  BY <1>0, <1>3, <1>4, FindsApart, BackupApart DEF Shoots
<1> QED BY <1>1, <1>2, <1>5 DEF SInv

\* A step of the streams alone.
LEMMA StreamKeeps ==
  ASSUME SInv, Grows, UNCHANGED <<call, request, finds, backup, encode, kept, motion>>
  PROVE  SInv'
<1>0. Types /\ Streams /\ Captures /\ Requests /\ Finds /\ Backup
  BY DEF SInv
<1>1. Len(grab) \in Nat /\ Len(grab') \in Nat /\ Len(grab) <= Len(grab')
  BY <1>0, LenProperties DEF Streams, Grows
<1>2. Captures'
  <2>1. ASSUME NEW d \in Caller, Capturing(call[d]) PROVE CaptureOK(call[d], Len(grab'), preview')
    <3>1. call[d] \in Capture /\ CaptureOK(call[d], Len(grab), preview)
      BY <1>0, <2>1, KindOf DEF Captures, Capturing, Types
    <3> QED BY <1>0, <3>1, CaptureStays
  <2> QED BY <2>1 DEF Captures
<1>3. Requests'
  BY <1>0, <1>1 DEF Requests
<1>4. Types' /\ Finds' /\ Backup'
  BY <1>0 DEF Types, Finds, Backup
<1> QED BY <1>0, <1>2, <1>3, <1>4, GrowsStreams DEF SInv

\* A change of one capture, or of one preview.
LEMMA GrabChanges ==
  ASSUME Streams, NEW k \in 1..Len(grab), NEW g \in Grab, g.channel = grab[k].channel,
         grab' = [grab EXCEPT ![k] = g],
         preview' = preview
  PROVE  Grows /\ Len(grab') = Len(grab)
<1>1. /\ grab' \in Seq(Grab) /\ Len(grab') = Len(grab) /\ Len(grab) \in Nat
      /\ \A i \in 1..Len(grab) : grab'[i].channel = grab[i].channel
  BY Changed DEF Streams
<1>2. Len(preview) \in Nat
  BY LenProperties DEF Streams
<1> QED BY <1>1, <1>2 DEF Grows, Streams

\* A preview that changes, and keeps its request and channel.
LEMMA PreviewChanges ==
  ASSUME Streams, NEW h \in 1..Len(preview), NEW v \in Preview, PreviewOK(v, grab),
         v.open => preview[h].open, preview' = [preview EXCEPT ![h] = v], grab' = grab
  PROVE  Grows /\ preview'[h] = v /\ Len(preview') = Len(preview)
<1>1. /\ preview' \in Seq(Preview) /\ Len(preview') = Len(preview) /\ Len(preview) \in Nat
      /\ preview'[h] = v
      /\ \A i \in 1..Len(preview) : i # h => preview'[i] = preview[i]
  BY Changed DEF Streams
<1>2. Len(grab) \in Nat
  BY LenProperties DEF Streams
<1> QED BY <1>1, <1>2 DEF Grows, Streams

\* A capture begins.
LEMMA KeyframeBeginKeeps ==
  ASSUME SInv, NEW c \in Caller, KeyframeBegin(c)
  PROVE  SInv'
<1>0. /\ Types /\ Streams /\ Captures /\ Requests
      /\ encode \in Encode /\ kept \in Encode \cup {None} /\ motion \in Setting
      /\ grab \in Seq(Grab) /\ preview \in Seq(Preview)
  BY DEF SInv, Types, Streams
<1>1. Free(c) /\ UNCHANGED <<live, finds, backup, encode, kept, motion>>
  BY DEF KeyframeBegin, device
<1>2. CASE Begin(c, Single("capture_keyframe", "uncoded")) /\ UNCHANGED stream
  <2>1. Simple(Single("capture_keyframe", "uncoded"))
    BY Errors, SingleOK
  <2>2. call' = [call EXCEPT ![c] = call'[c]] /\ call'[c] = Single("capture_keyframe", "uncoded") /\ Simple(call[c])
    BY <1>0, <1>1, <1>2, <2>1, Begun DEF Simple
  <2>3. Plain(c)
    BY <1>0, <1>1, <1>2, <2>1, <2>2 DEF Plain, stream
  <2> QED BY <2>3, PlainKeeps
<1>3. ASSUME NEW ch \in Channel,
             grab' = Append(grab, NewGrab(ch)),
             request' = [i \in DOMAIN request \cup {FreshId} |-> IF i = FreshId THEN Len(grab) + 1 ELSE request[i]],
             Begin(c, [op |-> "capture_keyframe", at |-> "play", result |-> None,
                       k |-> Len(grab) + 1, id |-> FreshId, handle |-> 0, arrived |-> FALSE]),
             UNCHANGED preview
      PROVE  SInv'
  <2> DEFINE r == [op |-> "capture_keyframe", at |-> "play", result |-> None,
                   k |-> Len(grab) + 1, id |-> FreshId, handle |-> 0, arrived |-> FALSE]
  <2>1. NewGrab(ch) \in Grab
    BY DEF NewGrab, Grab
  <2>2. /\ grab' \in Seq(Grab) /\ Len(grab') = Len(grab) + 1 /\ Len(grab) \in Nat
        /\ \A i \in 1..Len(grab) : grab'[i] = grab[i]
    BY <1>0, <1>3, <2>1, Longer
  <2>3. Len(preview) \in Nat
    BY <1>0, LenProperties
  <2>4. Grows
    BY <1>0, <1>3, <2>2, <2>3 DEF Grows, Streams
  <2>5. FreshId = Len(grab) + 1 /\ FreshId \in Nat
    BY <2>2 DEF FreshId
  <2>6. r \in Capture /\ r.at = "play" /\ r.k = Len(grab) + 1 /\ r.id = Len(grab) + 1 /\ r.handle = 0
    BY <2>2, <2>5, Errors DEF Capture
  <2> HIDE DEF r
  <2>7. Begin(c, r)
    BY <1>3 DEF r
  <2>8. call' = [call EXCEPT ![c] = call'[c]] /\ call'[c] = r /\ call[c].at = "done"
    BY <1>0, <1>1, <2>6, <2>7, Begun DEF Call, Free
  <2>9. Capturing(r) /\ CaptureOK(r, Len(grab'), preview')
    BY <1>3, <2>2, <2>3, <2>6 DEF Capturing, CaptureOK, Capture
  <2>10. ASSUME NEW i \in DOMAIN request'
         PROVE  \/ i \in DOMAIN request /\ request'[i] = request[i]
                \/ i \in 1..Len(grab') /\ request'[i] = i /\ r.id = i
    <3>1. i \in DOMAIN request \cup {FreshId} /\ request'[i] = IF i = FreshId THEN Len(grab) + 1 ELSE request[i]
      BY <1>3
    <3> QED BY <2>2, <2>5, <2>6, <3>1
  <2>11. ~Capturing(call[c])
    BY <2>8 DEF Capturing
  <2>12. Shoots(c)
    BY <1>1, <2>4, <2>6, <2>8, <2>9, <2>10, <2>11 DEF Shoots, Mine, Call
  <2> QED BY <2>12, ShootsKeeps
<1> QED BY <1>2, <1>3, Zenon DEF KeyframeBegin

\* What a capture in progress knows.
LEMMA InCapture ==
  ASSUME SInv, NEW c \in Caller, NEW l \in {"play", "wait", "stop", "remove"}, At(c, "capture_keyframe", l)
  PROVE  /\ call[c] \in Capture /\ call[c].at = l /\ call[c].k \in 1..Len(grab) /\ call[c].id = call[c].k
         /\ call[c].handle \in 0..Len(preview) /\ (l = "play" => call[c].handle = 0)
         /\ (l \in {"wait", "stop"} => call[c].handle \in 1..Len(preview))
         /\ CaptureOK(call[c], Len(grab), preview)
         /\ Types /\ Streams /\ Captures /\ Requests /\ call \in [Caller -> Call]
         /\ grab \in Seq(Grab) /\ preview \in Seq(Preview) /\ Len(grab) \in Nat /\ Len(preview) \in Nat
         /\ grab[call[c].k] \in Grab
<1>1. /\ Types /\ Streams /\ Captures /\ Requests /\ call \in [Caller -> Call]
      /\ grab \in Seq(Grab) /\ preview \in Seq(Preview) /\ Len(grab) \in Nat /\ Len(preview) \in Nat
  BY LenProperties DEF SInv, Types, Streams
<1>2. call[c].op = "capture_keyframe" /\ call[c].at = l /\ call[c] \in Call
  BY <1>1 DEF At
<1>3. call[c] \in Capture /\ CaptureOK(call[c], Len(grab), preview)
  BY <1>1, <1>2, KindOf DEF Captures, Capturing
<1>4. /\ call[c].k \in 1..Len(grab) /\ call[c].id = call[c].k
      /\ call[c].handle \in 0..Len(preview) /\ (l = "play" => call[c].handle = 0)
      /\ (l \in {"wait", "stop"} => call[c].handle # 0)
  BY <1>2, <1>3 DEF CaptureOK
<1>5. l \in {"wait", "stop"} => call[c].handle \in 1..Len(preview)
  BY <1>1, <1>4
<1>6. grab[call[c].k] \in Grab
  BY <1>1, <1>4, ElementOfSeq
<1> QED BY <1>1, <1>2, <1>3, <1>4, <1>5, <1>6

\* A capture goes on with the same request, in order.
LEMMA GoesOn ==
  ASSUME SInv, NEW c \in Caller, NEW l \in {"play", "wait", "stop", "remove"}, At(c, "capture_keyframe", l),
         NEW r \in Capture, call' = [call EXCEPT ![c] = r], r.id = call[c].id,
         CaptureOK(r, Len(grab'), preview'), Grows,
         UNCHANGED <<request, finds, backup, encode, kept, motion>>
  PROVE  SInv'
<1>1. call[c] \in Capture /\ call \in [Caller -> Call]
  BY InCapture
<1>2. call'[c] = r
  BY <1>1
<1>3. Mine(c)
  BY <1>2 DEF Mine, Call
<1>4. Capturing(r)
  BY DEF Capturing, Capture
<1>5. Shoots(c)
  BY <1>1, <1>2, <1>3, <1>4 DEF Shoots
<1> QED BY <1>5, ShootsKeeps

\* The capture k is over.
LEMMA OverGrows ==
  ASSUME SInv, NEW k \in 1..Len(grab), Over(k), preview' = preview
  PROVE  Grows /\ Len(grab') = Len(grab)
<1>1. Streams /\ grab[k] \in Grab /\ grab \in Seq(Grab)
  BY ElementOfSeq DEF SInv, Streams
<1> DEFINE g == [grab[k] EXCEPT !.over = TRUE]
<1>2. g \in Grab /\ g.channel = grab[k].channel
  BY <1>1 DEF Grab
<1>3. grab' = [grab EXCEPT ![k] = g]
  BY DEF Over
<1> HIDE DEF g
<1> QED BY <1>1, <1>2, <1>3, GrabChanges

\* The preview of a capture is started, or not.
LEMMA KeyframePlayKeeps ==
  ASSUME SInv, NEW c \in Caller, KeyframePlay(c)
  PROVE  SInv'
<1> DEFINE g == call[c]
<1>0. /\ At(c, "capture_keyframe", "play") /\ UNCHANGED <<live, request, finds, backup, encode, kept, motion>>
  BY DEF KeyframePlay, device
<1>1. /\ g \in Capture /\ g.at = "play" /\ g.k \in 1..Len(grab) /\ g.id = g.k /\ g.handle = 0
      /\ Types /\ Streams /\ call \in [Caller -> Call] /\ grab \in Seq(Grab) /\ preview \in Seq(Preview)
      /\ Len(grab) \in Nat /\ Len(preview) \in Nat /\ grab[g.k] \in Grab
  BY <1>0, InCapture
<1>2. \/ /\ preview' = Append(preview, [user |-> g.id, channel |-> grab[g.k].channel, caller |-> c,
                                        open |-> TRUE, thread |-> "idle", k |-> 0])
         /\ call' = [call EXCEPT ![c].at = "wait", ![c].handle = Len(preview) + 1] /\ grab' = grab
      \/ /\ \E e \in Codes : call' = [call EXCEPT ![c].at = "remove", ![c].result = e]
         /\ Over(g.k) /\ preview' = preview
  BY DEF KeyframePlay
<1>3. CASE /\ preview' = Append(preview, [user |-> g.id, channel |-> grab[g.k].channel, caller |-> c,
                                          open |-> TRUE, thread |-> "idle", k |-> 0])
           /\ call' = [call EXCEPT ![c].at = "wait", ![c].handle = Len(preview) + 1] /\ grab' = grab
  <2>n. PICK n \in Nat : n = Len(preview) + 1
    BY <1>1
  <2> DEFINE v == [user |-> g.id, channel |-> grab[g.k].channel, caller |-> c,
                   open |-> TRUE, thread |-> "idle", k |-> 0]
             r == [g EXCEPT !.at = "wait", !.handle = n]
  <2>1. v \in Preview /\ PreviewOK(v, grab)
    BY <1>1 DEF Preview, PreviewOK, Capture, Grab
  <2>2. r \in Capture /\ r.id = g.id /\ r.at = "wait" /\ r.k = g.k /\ r.handle = n
    BY <1>1 DEF Capture
  <2>3. call' = [call EXCEPT ![c] = r]
    BY <1>1, <1>3, <2>n
  <2>4. preview' = Append(preview, v)
    BY <1>3
  <2> HIDE DEF v, r
  <2>5. /\ preview' \in Seq(Preview) /\ Len(preview') = Len(preview) + 1
        /\ \A h \in 1..Len(preview) : preview'[h] = preview[h]
        /\ preview'[Len(preview) + 1] = v
    BY <1>1, <2>1, <2>4, Longer
  <2>6. ASSUME NEW h \in 1..Len(preview') PROVE PreviewOK(preview'[h], grab)
    <3>1. h \in 1..Len(preview) \/ h = Len(preview) + 1
      BY <1>1, <2>5
    <3> QED BY <1>1, <2>1, <2>5, <3>1 DEF Streams
  <2>7. Grows
    <3>1. Len(preview) <= Len(preview')
      BY <1>1, <2>5
    <3>2. grab' \in Seq(Grab) /\ Len(grab) <= Len(grab') /\ \A i \in 1..Len(grab) : grab'[i].channel = grab[i].channel
      BY <1>1, <1>3
    <3>3. \A h \in 1..Len(preview) : preview'[h].open => preview[h].open
      BY <2>5
    <3> QED BY <2>5, <2>6, <3>1, <3>2, <3>3 DEF Grows
  <2>8. CaptureOK(r, Len(grab'), preview')
    <3>1. r.handle \in 0..Len(preview') /\ r.handle # 0
      BY <1>1, <2>2, <2>5, <2>n
    <3>2. r.k \in 1..Len(grab')
      BY <1>1, <1>3, <2>2
    <3> QED BY <1>1, <2>2, <3>1, <3>2 DEF CaptureOK
  <2> QED BY <1>0, <2>2, <2>3, <2>7, <2>8, GoesOn
<1>4. CASE /\ \E e \in Codes : call' = [call EXCEPT ![c].at = "remove", ![c].result = e]
           /\ Over(g.k) /\ preview' = preview
  <2>1. PICK e \in Codes : call' = [call EXCEPT ![c].at = "remove", ![c].result = e]
    BY <1>4
  <2> DEFINE r == With(g, "remove", e)
  <2>2. call' = [call EXCEPT ![c] = r]
    BY <1>1, <2>1 DEF With
  <2>3. r \in Capture /\ r.id = g.id /\ r.at = "remove" /\ r.k = g.k /\ r.handle = 0
    BY <1>1, Errors DEF Capture, With
  <2> HIDE DEF r
  <2>4. Grows /\ Len(grab') = Len(grab)
    BY <1>1, <1>4, OverGrows
  <2>5. CaptureOK(r, Len(grab'), preview')
    BY <1>1, <1>4, <2>3, <2>4 DEF CaptureOK
  <2> QED BY <1>0, <2>2, <2>3, <2>4, <2>5, GoesOn
<1> QED BY <1>2, <1>3, <1>4

\* The wait ends.
LEMMA KeyframeWakeKeeps ==
  ASSUME SInv, NEW c \in Caller, KeyframeWake(c)
  PROVE  SInv'
<1> DEFINE g == call[c]
<1>0. /\ At(c, "capture_keyframe", "wait") /\ UNCHANGED <<live, request, preview, finds, backup, encode, kept, motion>>
      /\ call' = [call EXCEPT ![c].at = "stop", ![c].arrived = grab[g.k].over] /\ Over(g.k)
  BY DEF KeyframeWake, device
<1>1. /\ g \in Capture /\ g.k \in 1..Len(grab) /\ g.id = g.k /\ g.handle \in 1..Len(preview)
      /\ call \in [Caller -> Call] /\ grab[g.k] \in Grab /\ Len(grab) \in Nat /\ Len(preview) \in Nat
  BY <1>0, InCapture
<1> DEFINE r == [g EXCEPT !.at = "stop", !.arrived = grab[g.k].over]
<1>2. call' = [call EXCEPT ![c] = r]
  BY <1>0, <1>1
<1>3. r \in Capture /\ r.id = g.id /\ r.at = "stop" /\ r.k = g.k /\ r.handle = g.handle
  BY <1>1 DEF Capture, Grab
<1> HIDE DEF r
<1>4. Grows /\ Len(grab') = Len(grab)
  BY <1>0, <1>1, OverGrows
<1>5. CaptureOK(r, Len(grab'), preview')
  BY <1>0, <1>1, <1>3, <1>4 DEF CaptureOK
<1> QED BY <1>0, <1>2, <1>3, <1>4, <1>5, GoesOn

\* The preview is stopped, or stays open.
LEMMA KeyframeStopKeeps ==
  ASSUME SInv, NEW c \in Caller, KeyframeStop(c)
  PROVE  SInv'
<1> DEFINE g == call[c]
<1>0. /\ At(c, "capture_keyframe", "stop") /\ UNCHANGED <<live, grab, request, finds, backup, encode, kept, motion>>
      /\ \/ preview' = [preview EXCEPT ![g.handle].open = FALSE] /\ Move(c, "remove")
         \/ call' = [call EXCEPT ![c].at = "remove", ![c].result = StopError] /\ preview' = preview
  BY DEF KeyframeStop, device
<1>1. /\ g \in Capture /\ g.k \in 1..Len(grab) /\ g.id = g.k /\ g.handle \in 1..Len(preview)
      /\ call \in [Caller -> Call] /\ Len(grab) \in Nat /\ Len(preview) \in Nat
      /\ Streams /\ preview \in Seq(Preview) /\ grab \in Seq(Grab)
  BY <1>0, InCapture
<1>2. CASE preview' = [preview EXCEPT ![g.handle].open = FALSE] /\ Move(c, "remove")
  <2> DEFINE r == To(g, "remove")
             v == [preview[g.handle] EXCEPT !.open = FALSE]
  <2>1. call' = [call EXCEPT ![c] = r]
    BY <1>1, <1>2, CallMoves
  <2>2. r \in Capture /\ r.id = g.id /\ r.at = "remove" /\ r.k = g.k /\ r.handle = g.handle
    BY <1>1 DEF Capture, To
  <2>3. preview[g.handle] \in Preview /\ PreviewOK(preview[g.handle], grab)
    BY <1>1, ElementOfSeq DEF Streams
  <2>4. v \in Preview /\ PreviewOK(v, grab) /\ v.open = FALSE
    BY <2>3 DEF Preview, PreviewOK
  <2>5. preview' = [preview EXCEPT ![g.handle] = v]
    BY <1>2
  <2> HIDE DEF r, v
  <2>6. Grows /\ preview'[g.handle] = v /\ Len(preview') = Len(preview)
    BY <1>0, <1>1, <2>4, <2>5, PreviewChanges
  <2>7. CaptureOK(r, Len(grab'), preview')
    BY <1>0, <1>1, <2>2, <2>4, <2>6 DEF CaptureOK
  <2> QED BY <1>0, <2>1, <2>2, <2>6, <2>7, GoesOn
<1>3. CASE call' = [call EXCEPT ![c].at = "remove", ![c].result = StopError] /\ preview' = preview
  <2> DEFINE r == With(g, "remove", "uncoded")
  <2>1. call' = [call EXCEPT ![c] = r]
    BY <1>1, <1>3 DEF With, StopError
  <2>2. /\ r \in Capture /\ r.id = g.id /\ r.at = "remove" /\ r.k = g.k /\ r.handle = g.handle
        /\ r.result = "uncoded"
    BY <1>1, Errors DEF Capture, With
  <2> HIDE DEF r
  <2>3. Grows
    BY <1>0, <1>1, <1>3 DEF Grows, Streams
  <2>4. CaptureOK(r, Len(grab'), preview')
    BY <1>0, <1>1, <1>3, <2>2 DEF CaptureOK
  <2> QED BY <1>0, <2>1, <2>2, <2>3, <2>4, GoesOn
<1> QED BY <1>0, <1>2, <1>3

\* How the capture of c ends.
EndError(c) == IF call[c].result # None THEN call[c].result
               ELSE IF grab[call[c].k].error \/ ~call[c].arrived \/ grab[call[c].k].frame = None THEN "uncoded" ELSE None

EndOf(c) == [op |-> "capture_keyframe", at |-> "done", result |-> EndError(c),
             asked |-> grab[call[c].k].channel,
             frame |-> IF EndError(c) = None THEN grab[call[c].k].frame ELSE None]

\* A capture ends with its own frame or an error.
LEMMA KeyframeEndKeeps ==
  ASSUME SInv, NEW c \in Caller, KeyframeEnd(c)
  PROVE  SInv' /\ call'[c] = EndOf(c)
<1> DEFINE g == call[c]
           b == grab[g.k]
           r == EndOf(c)
<1>0. /\ At(c, "capture_keyframe", "remove") /\ UNCHANGED <<live, grab, preview, finds, backup, encode, kept, motion>>
      /\ request' = Removed(g.id) /\ call' = [call EXCEPT ![c] = r]
  BY DEF KeyframeEnd, device, EndOf, EndError
<1>1. /\ g \in Capture /\ call \in [Caller -> Call] /\ b \in Grab /\ Streams
      /\ Len(grab) \in Nat /\ Len(preview) \in Nat
  BY <1>0, InCapture
<1>2. EndError(c) \in Result /\ (EndError(c) = None => b.frame # None)
  BY <1>1, Errors, SessionAssumption DEF EndError, Capture, SessionAssumption
<1>3. b.frame \in {None, b.channel} /\ b.channel \in Channel
  BY <1>1 DEF Grab
<1>4. r \in Shot
  BY <1>2, <1>3 DEF Shot, EndOf
<1> HIDE DEF r
<1>5. call'[c] = r /\ ~Capturing(r)
  BY <1>0, <1>1, <1>4 DEF Capturing, Shot
<1>6. Grows
  BY <1>0, <1>1 DEF Grows, Streams
<1>7. ASSUME NEW i \in DOMAIN request'
      PROVE  i \in DOMAIN request /\ request'[i] = request[i] /\ g.id # i
  BY <1>0 DEF Removed
<1>8. Shoots(c)
  BY <1>0, <1>1, <1>4, <1>5, <1>6, <1>7 DEF Shoots, Mine, Call
<1> QED BY <1>5, <1>8, ShootsKeeps DEF r

\* The library delivers data to the request of the preview, or to none.
LEMMA NativeKeeps ==
  ASSUME SInv, NEW h \in DOMAIN preview, NativeEnter(h) \/ Dispatch(h) \/ OnData(h)
  PROVE  SInv'
<1>0. /\ Streams /\ Requests /\ preview \in Seq(Preview) /\ grab \in Seq(Grab) /\ h \in 1..Len(preview)
      /\ Len(grab) \in Nat /\ Len(preview) \in Nat
  BY LenProperties DEF SInv, Streams
<1>1. preview[h] \in Preview /\ PreviewOK(preview[h], grab)
  BY <1>0, ElementOfSeq DEF Streams
<1>2. UNCHANGED <<call, request, finds, backup, encode, kept, motion>>
  BY DEF NativeEnter, Dispatch, OnData, device
<1>3. CASE NativeEnter(h)
  <2> DEFINE v == [preview[h] EXCEPT !.thread = "called"]
  <2>1. preview' = [preview EXCEPT ![h] = v] /\ grab' = grab
    BY <1>3 DEF NativeEnter
  <2>2. v \in Preview /\ PreviewOK(v, grab) /\ v.open = preview[h].open
    BY <1>1 DEF Preview, PreviewOK
  <2> HIDE DEF v
  <2>3. Grows
    BY <1>0, <2>1, <2>2, PreviewChanges
  <2> QED BY <1>2, <2>3, StreamKeeps
<1>4. CASE Dispatch(h)
  <2> DEFINE k == IF preview[h].user \in DOMAIN request THEN request[preview[h].user] ELSE 0
             l == IF k = 0 \/ (k # 0 /\ grab[k].over) THEN "idle" ELSE "data"
             v == [preview[h] EXCEPT !.k = k, !.thread = l]
  <2>1. preview' = [preview EXCEPT ![h].k = k, ![h].thread = l] /\ grab' = grab
    BY <1>4 DEF Dispatch
  <2>2. preview' = [preview EXCEPT ![h] = v]
    BY <1>0, <1>1, <2>1 DEF Preview
  <2>3. k \in {preview[h].user, 0} /\ l \in {"idle", "data"} /\ (l = "data" => k # 0)
    BY <1>0 DEF Requests
  <2>4. preview[h].user \in Nat
    BY <1>1 DEF Preview
  <2> HIDE DEF k, l
  <2>5. v \in Preview /\ PreviewOK(v, grab) /\ v.open = preview[h].open
    <3>1. k \in Nat
      BY <2>3, <2>4
    <3>2. /\ v \in Preview /\ v.open = preview[h].open /\ v.user = preview[h].user
          /\ v.channel = preview[h].channel /\ v.thread = l /\ v.k = k
      BY <1>1, <2>3, <3>1 DEF Preview
    <3> HIDE DEF v
    <3>3. l = "data" => k = preview[h].user
      BY <2>3
    <3> QED BY <1>1, <3>2, <3>3 DEF PreviewOK
  <2> HIDE DEF v
  <2>6. Grows
    BY <1>0, <2>1, <2>2, <2>5, PreviewChanges
  <2> QED BY <1>2, <2>6, StreamKeeps
<1>5. CASE OnData(h)
  <2> DEFINE k == preview[h].k
             ch == preview[h].channel
             v == [preview[h] EXCEPT !.thread = "idle", !.k = 0]
  <2>1. /\ preview[h].thread = "data"
        /\ \/ grab' = [grab EXCEPT ![k].codec = ch]
           \/ grab' = [grab EXCEPT ![k].frame = ch, ![k].over = TRUE]
           \/ grab' = [grab EXCEPT ![k].error = TRUE, ![k].over = TRUE]
        /\ preview' = [preview EXCEPT ![h].thread = "idle", ![h].k = 0]
    BY <1>5 DEF OnData, Thread
  <2>2. k \in 1..Len(grab) /\ grab[k].channel = ch
    BY <1>1, <2>1 DEF PreviewOK
  <2>3. grab[k] \in Grab /\ ch \in Channel
    BY <1>0, <1>1, <2>2, ElementOfSeq DEF Preview
  <2>4. PICK g \in Grab : g.channel = ch /\ grab' = [grab EXCEPT ![k] = g]
    <3>1. CASE grab' = [grab EXCEPT ![k].codec = ch]
      <4> DEFINE g == [grab[k] EXCEPT !.codec = ch]
      <4>1. g \in Grab /\ g.channel = ch
        BY <2>2, <2>3 DEF Grab
      <4> QED BY <3>1, <4>1
    <3>2. CASE grab' = [grab EXCEPT ![k].frame = ch, ![k].over = TRUE]
      <4> DEFINE g == [grab[k] EXCEPT !.frame = ch, !.over = TRUE]
      <4>1. g \in Grab /\ g.channel = ch
        BY <2>2, <2>3 DEF Grab
      <4>2. grab' = [grab EXCEPT ![k] = g]
        BY <1>0, <2>2, <2>3, <3>2 DEF Grab
      <4> QED BY <4>1, <4>2
    <3>3. CASE grab' = [grab EXCEPT ![k].error = TRUE, ![k].over = TRUE]
      <4> DEFINE g == [grab[k] EXCEPT !.error = TRUE, !.over = TRUE]
      <4>1. g \in Grab /\ g.channel = ch
        BY <2>2, <2>3 DEF Grab
      <4>2. grab' = [grab EXCEPT ![k] = g]
        BY <1>0, <2>2, <2>3, <3>3 DEF Grab
      <4> QED BY <4>1, <4>2
    <3> QED BY <2>1, <3>1, <3>2, <3>3
  <2>5. v \in Preview /\ PreviewOK(v, grab) /\ v.open = preview[h].open
    BY <1>1 DEF Preview, PreviewOK
  <2>6. preview' = [preview EXCEPT ![h] = v]
    BY <1>0, <1>1, <2>1 DEF Preview
  <2> HIDE DEF v
  <2>7. /\ grab' \in Seq(Grab) /\ Len(grab') = Len(grab)
        /\ \A i \in 1..Len(grab) : grab'[i].channel = grab[i].channel
    <3>1. /\ grab' \in Seq(Grab) /\ Len(grab') = Len(grab) /\ grab'[k] = g
          /\ \A i \in 1..Len(grab) : i # k => grab'[i] = grab[i]
      BY <1>0, <2>2, <2>4, Changed
    <3> QED BY <2>2, <2>4, <3>1
  <2>8. /\ preview' \in Seq(Preview) /\ Len(preview') = Len(preview) /\ preview'[h] = v
        /\ \A i \in 1..Len(preview) : i # h => preview'[i] = preview[i]
    BY <1>0, <2>5, <2>6, Changed
  <2>9. Grows
    <3>1. \A i \in 1..Len(preview') : PreviewOK(preview'[i], grab)
      BY <1>0, <2>5, <2>8 DEF Streams
    <3>2. \A i \in 1..Len(preview) : preview'[i].open => preview[i].open
      BY <2>5, <2>8
    <3> QED BY <1>0, <2>7, <2>8, <3>1, <3>2 DEF Grows
  <2> QED BY <1>2, <2>9, StreamKeeps
<1> QED BY <1>3, <1>4, <1>5

\* The session ends, and others edit the device.
LEMMA WorldKeeps ==
  ASSUME SInv, Logout \/ OtherEdit
  PROVE  SInv'
<1>0. Types /\ Streams /\ Captures /\ Requests /\ Finds /\ Backup
  BY DEF SInv
<1>1. UNCHANGED <<call, grab, request, preview, finds, backup, kept>>
  BY DEF Logout, OtherEdit, stream, device
<1>2. encode' \in Encode /\ motion' \in Setting
  <2>1. encode \in Encode /\ motion \in Setting
    BY <1>0 DEF Types
  <2>2. CASE Logout
    BY <2>1, <2>2 DEF Logout, device
  <2>3. CASE OtherEdit
    <3>1. \/ \E p \in Profile : encode' = [encode EXCEPT ![p] = 1 - @] /\ motion' = motion
          \/ motion' = 1 - motion /\ encode' = encode
      BY <2>3 DEF OtherEdit
    <3> QED BY <2>1, <3>1 DEF Encode, Setting
  <2> QED BY <2>2, <2>3
<1> QED BY <1>0, <1>1, <1>2 DEF SInv, Types, Streams, Captures, Requests, Finds, Backup

\* The steps of a caller, by their kind.
Asks(c)     == Ask(c) \/ AskFaces(c) \/ Jpeg(c) \/ JpegAgain(c)
Captured(c) == KeyframeBegin(c) \/ KeyframePlay(c) \/ KeyframeWake(c) \/ KeyframeStop(c) \/ KeyframeEnd(c)
Searches(c) == FindBegin(c) \/ FindNext(c) \/ FindClose(c)
Exports(c)  == ExportBegin(c) \/ Fetch(c) \/ Publish(c) \/ Unlink(c)
Sets(c)     == SetNode(c) \/ SetNodeWrite(c)
Updates(c)  == Update(c) \/ UpdateWrite(c) \/ UpdateVerify(c) \/ UpdateReturn(c)
Motions(c)  == MotionRead(c) \/ MotionEdit(c) \/ MotionReread(c)

\* Every step is of one of these kinds.
LEMMA NextCases ==
  ASSUME Next
  PROVE  \/ Logout \/ OtherEdit
         \/ \E c \in Caller : \/ Asks(c) \/ Captured(c) \/ Searches(c) \/ Exports(c)
                              \/ Sets(c) \/ Updates(c) \/ Motions(c)
         \/ \E h \in DOMAIN preview : NativeEnter(h) \/ Dispatch(h) \/ OnData(h)
BY DEF Next, Step, Asks, Captured, Searches, Exports, Sets, Updates, Motions

\* The invariant is inductive.
LEMMA SInvStep == SInv /\ [Next]_vars => SInv'
<1> SUFFICES ASSUME SInv, [Next]_vars PROVE SInv'
  OBVIOUS
<1>0. Types
  BY DEF SInv
<1>1. CASE Logout \/ OtherEdit
  BY <1>1, WorldKeeps
<1>2. ASSUME NEW c \in Caller, Asks(c) \/ Sets(c) \/ Updates(c) \/ Motions(c)
      PROVE  SInv'
  <2>1. Plain(c)
    BY <1>0, <1>2, AskPlain, SetNodePlain, UpdatePlain, MotionPlain DEF Asks, Sets, Updates, Motions
  <2> QED BY <2>1, PlainKeeps
<1>3. ASSUME NEW c \in Caller, Captured(c)
      PROVE  SInv'
  BY <1>3, KeyframeBeginKeeps, KeyframePlayKeeps, KeyframeWakeKeeps, KeyframeStopKeeps, KeyframeEndKeeps DEF Captured
<1>4. ASSUME NEW c \in Caller, Searches(c) \/ Exports(c)
      PROVE  SInv'
  BY <1>4, FindKeeps, ExportKeeps DEF Searches, Exports
<1>5. ASSUME NEW h \in DOMAIN preview, NativeEnter(h) \/ Dispatch(h) \/ OnData(h)
      PROVE  SInv'
  BY <1>5, NativeKeeps
<1>6. CASE UNCHANGED vars
  BY <1>6 DEF vars, stream, device, SInv, Types, Streams, Captures, Requests, Finds, Backup
<1> QED BY <1>1, <1>2, <1>3, <1>4, <1>5, <1>6, NextCases

\* The invariant holds.
LEMMA SInvCorrect == Spec => []SInv
<1> QED BY SInvInit, SInvStep, PTL DEF Spec

-----------------------------------------------------------------------------
(* Steps of a caller *)

\* The other calls stay.
LEMMA Alone ==
  ASSUME Types, NEW c \in Caller, NEW d \in Caller, d # c,
         Asks(c) \/ Captured(c) \/ Searches(c) \/ Exports(c) \/ Sets(c) \/ Updates(c) \/ Motions(c)
  PROVE  call'[d] = call[d]
<1>0. call \in [Caller -> Call]
  BY DEF Types
<1>1. CASE Asks(c)
  BY <1>0, <1>1 DEF Asks, Ask, AskFaces, Jpeg, JpegAgain, Begin, Finish
<1>2. CASE Captured(c)
  BY <1>0, <1>2 DEF Captured, KeyframeBegin, KeyframePlay, KeyframeWake, KeyframeStop, KeyframeEnd, Begin, Move
<1>3. CASE Searches(c)
  BY <1>0, <1>3 DEF Searches, FindBegin, FindNext, FindClose, Begin, Move, Finish
<1>4. CASE Exports(c)
  BY <1>0, <1>4 DEF Exports, ExportBegin, Fetch, Publish, Unlink, Begin, Move, Finish
<1>5. CASE Sets(c)
  BY <1>0, <1>5 DEF Sets, SetNode, SetNodeWrite, Begin, Finish
<1>6. CASE Updates(c)
  BY <1>0, <1>6 DEF Updates, Update, UpdateWrite, UpdateVerify, UpdateReturn, Begin, Move, Finish
<1>7. CASE Motions(c)
  BY <1>0, <1>7 DEF Motions, MotionRead, MotionEdit, MotionReread, Begin, Move, Finish
<1> QED BY <1>1, <1>2, <1>3, <1>4, <1>5, <1>6, <1>7

\* Only a capture takes a capture further.
LEMMA NotCapturing ==
  ASSUME Types, NEW c \in Caller,
         Asks(c) \/ Searches(c) \/ Exports(c) \/ Sets(c) \/ Updates(c) \/ Motions(c)
  PROVE  ~Capturing(call[c])
<1>0. call[c] \in Call
  BY DEF Types
<1>1. CASE Asks(c) \/ Sets(c) \/ Updates(c) \/ Motions(c)
  <2>1. Plain(c)
    BY <1>1, AskPlain, SetNodePlain, UpdatePlain, MotionPlain DEF Asks, Sets, Updates, Motions
  <2> QED BY <2>1, SimpleNot DEF Plain
<1>2. CASE Searches(c)
  <2>1. call[c].at \in {"done", "next", "close"}
    BY <1>2 DEF Searches, FindBegin, FindNext, FindClose, Free
  <2>2. call[c].at \in {"next", "close"} => call[c].op \in Finder
    BY <1>0, KindOf DEF Finding
  <2> QED BY <2>1, <2>2 DEF Capturing, Finder
<1>3. CASE Exports(c)
  BY <1>3 DEF Exports, ExportBegin, Fetch, Publish, Unlink, Free, At, Capturing
<1> QED BY <1>1, <1>2, <1>3

\* How a step of the capture of c leaves it.
LEMMA CaptureEnds ==
  ASSUME SInv, NEW c \in Caller, Captured(c), Capturing(call[c]), call'[c].at = "done"
  PROVE  At(c, "capture_keyframe", "remove") /\ call'[c] = EndOf(c)
<1>0. Types /\ call \in [Caller -> Call] /\ call[c] \in Capture
  BY KindOf DEF SInv, Types, Capturing
<1>1. ~KeyframeBegin(c)
  BY DEF KeyframeBegin, Free, Capturing
<1>2. ~KeyframePlay(c)
  <2> SUFFICES ASSUME KeyframePlay(c) PROVE call'[c].at # "done"
    OBVIOUS
  <2>1. \/ call' = [call EXCEPT ![c].at = "wait", ![c].handle = Len(preview) + 1]
        \/ \E e \in Codes : call' = [call EXCEPT ![c].at = "remove", ![c].result = e]
    BY DEF KeyframePlay
  <2> QED BY <1>0, <2>1 DEF Capture
<1>3. ~KeyframeWake(c)
  <2> SUFFICES ASSUME KeyframeWake(c) PROVE call'[c].at # "done"
    OBVIOUS
  <2>1. call' = [call EXCEPT ![c].at = "stop", ![c].arrived = grab[call[c].k].over]
    BY DEF KeyframeWake
  <2> QED BY <1>0, <2>1 DEF Capture
<1>4. ~KeyframeStop(c)
  <2> SUFFICES ASSUME KeyframeStop(c) PROVE call'[c].at # "done"
    OBVIOUS
  <2>1. \/ call' = [call EXCEPT ![c].at = "remove"]
        \/ call' = [call EXCEPT ![c].at = "remove", ![c].result = StopError]
    BY DEF KeyframeStop, Move
  <2> QED BY <1>0, <2>1 DEF Capture
<1>5. KeyframeEnd(c)
  BY <1>1, <1>2, <1>3, <1>4 DEF Captured
<1> QED BY <1>5, KeyframeEndKeeps DEF KeyframeEnd

-----------------------------------------------------------------------------
(* The properties *)

\* A key frame that is returned shows the channel asked for.
THEOREM FrameCorrect == Spec => []FrameIsOwn
<1>1. SInv => FrameIsOwn
  <2> SUFFICES ASSUME SInv, NEW c \in Caller, At(c, "capture_keyframe", "done"), call[c].result = None,
                      "frame" \in DOMAIN call[c]
               PROVE  call[c].frame = call[c].asked
    BY DEF FrameIsOwn
  <2>1. call[c] \in Call /\ call[c].at = "done" /\ call[c].op = "capture_keyframe"
    BY DEF SInv, Types, At
  <2>2. call[c] \notin Ended
    BY DEF Ended
  <2>3. call[c] \in Shot
    BY <2>1, <2>2 DEF Call, Jpegs, Finding, Finder, Export, Node, Updated, Motion, Capture
  <2> QED BY <2>3 DEF Shot
<1> QED BY <1>1, SInvCorrect, PTL

\* Requests, enumerations and temporary files belong to calls in progress, and the
\* destination of an export is the old file or a whole one.
THEOREM NothingLeftCorrect == Spec => []NothingLeftBehind
<1>1. SInv => NothingLeftBehind
  <2> SUFFICES ASSUME SInv PROVE NothingLeftBehind
    OBVIOUS
  <2>1. Requests /\ Finds /\ Backup
    BY DEF SInv
  <2>2. \A i \in DOMAIN request : \E c \in Caller :
          call[c].op = "capture_keyframe" /\ call[c].at # "done" /\ call[c].id = i
    BY <2>1 DEF Requests, Capturing
  <2>3. \A c \in finds : call[c].at \in {"next", "close"}
    BY <2>1 DEF Finds
  <2>4. \A c \in Caller : backup.temporary[c] # None => call[c].op = "export_config" /\ call[c].at # "done"
    BY <2>1 DEF Backup, Exporting
  <2>5. backup.at \in {"old", "whole"}
    BY <2>1 DEF Backup
  <2> QED BY <2>2, <2>3, <2>4, <2>5 DEF NothingLeftBehind
<1> QED BY <1>1, SInvCorrect, PTL

\* A preview that its capture leaves open is reported with an error that makes the
\* owner of the session give it up.
THEOREM OrphanCorrect == Spec => OrphanInvalidates
<1> DEFINE A == \A c \in Caller : (call[c].op = "capture_keyframe" /\ call[c].at # "done" /\ call'[c].at = "done") =>
                  \A h \in DOMAIN preview : (preview[h].caller = c /\ preview[h].open /\ h = call[c].handle) =>
                     Invalidates(call'[c].result)
<1>1. SInv /\ [Next]_vars => A
  <2> SUFFICES ASSUME SInv, [Next]_vars, NEW c \in Caller, Capturing(call[c]), call'[c].at = "done",
                      NEW h \in DOMAIN preview, preview[h].open, h = call[c].handle
               PROVE  Invalidates(call'[c].result)
    BY DEF Capturing
  <2>0. Types /\ Streams
    BY DEF SInv
  <2>1. call'[c] # call[c]
    BY DEF Capturing
  <2>2. ~(Logout \/ OtherEdit \/ UNCHANGED vars \/ \E k \in DOMAIN preview : NativeEnter(k) \/ Dispatch(k) \/ OnData(k))
    BY <2>1 DEF Logout, OtherEdit, vars, NativeEnter, Dispatch, OnData
  <2>3. PICK d \in Caller : Asks(d) \/ Captured(d) \/ Searches(d) \/ Exports(d) \/ Sets(d) \/ Updates(d) \/ Motions(d)
    BY <2>2, NextCases
  <2>4. d = c
    BY <2>0, <2>1, <2>3, Alone
  <2>5. Captured(c)
    BY <2>0, <2>3, <2>4, NotCapturing
  <2>6. At(c, "capture_keyframe", "remove") /\ call'[c] = EndOf(c)
    BY <2>5, CaptureEnds
  <2>7. call[c].at = "remove" /\ CaptureOK(call[c], Len(grab), preview) /\ Len(preview) \in Nat
    BY <2>6, InCapture
  <2>8. call[c].handle # 0
    BY <2>0, <2>7, LenProperties DEF Streams
  <2>9. call[c].result = "uncoded"
    BY <2>7, <2>8 DEF CaptureOK
  <2>10. "uncoded" # None
    BY SessionAssumption DEF SessionAssumption
  <2>11. call'[c].result = "uncoded"
    BY <2>6, <2>9, <2>10 DEF EndOf, EndError
  <2> QED BY <2>10, <2>11 DEF Invalidates
<1>2. SInv /\ [Next]_vars => [A]_vars
  BY <1>1
<1>3. Spec => [][A]_vars
  BY <1>2, SInvCorrect, PTL DEF Spec
<1> QED BY <1>3 DEF OrphanInvalidates

\* No other call becomes an update of a profile.
LEMMA NotUpdate ==
  ASSUME Types, NEW c \in Caller,
         Asks(c) \/ Captured(c) \/ Searches(c) \/ Exports(c) \/ Sets(c) \/ Motions(c)
  PROVE  call'[c].op # "update"
<1>0. call \in [Caller -> Call] /\ call[c] \in Call
  BY DEF Types
<1>f. ASSUME NEW e, Finish(c, e), "op" \in DOMAIN call[c] PROVE call'[c].op = call[c].op
  BY <1>0, <1>f DEF Finish
<1>b. ASSUME NEW r, Begin(c, r) PROVE call'[c] = r
  BY <1>0, <1>b DEF Begin
<1>s. \A o, e : Single(o, e).op = o
  BY DEF Single
<1>1. CASE Asks(c)
  <2>1. CASE Ask(c)
    BY <1>b, <1>s, <2>1 DEF Ask
  <2>2. CASE AskFaces(c)
    BY <1>b, <1>s, <2>2 DEF AskFaces
  <2>3. CASE Jpeg(c)
    <3>1. \/ Begin(c, Single("capture_jpeg", None))
          \/ \E form, e : Begin(c, [op |-> "capture_jpeg", at |-> "second", result |-> e, form |-> form])
      BY <2>3 DEF Jpeg
    <3>2. CASE Begin(c, Single("capture_jpeg", None))
      BY <1>b, <1>s, <3>2
    <3>3. ASSUME NEW form, NEW e, Begin(c, [op |-> "capture_jpeg", at |-> "second", result |-> e, form |-> form])
          PROVE  call'[c].op # "update"
      BY <1>b, <3>3
    <3> QED BY <3>1, <3>2, <3>3
  <2>4. CASE JpegAgain(c)
    <3>1. call[c] \in Jpegs /\ \E e : Finish(c, e)
      BY <1>0, <2>4, KindOf DEF JpegAgain, At
    <3> QED BY <1>f, <3>1 DEF Jpegs
  <2> QED BY <1>1, <2>1, <2>2, <2>3, <2>4 DEF Asks
<1>2. CASE Captured(c)
  <2>1. CASE KeyframeBegin(c)
    BY <1>b, <1>s, <2>1 DEF KeyframeBegin
  <2>2. CASE KeyframeEnd(c)
    BY <1>0, <2>2 DEF KeyframeEnd
  <2>3. CASE KeyframePlay(c) \/ KeyframeWake(c) \/ KeyframeStop(c)
    <3>1. call[c] \in Capture
      BY <1>0, <2>3, KindOf DEF KeyframePlay, KeyframeWake, KeyframeStop, At
    <3>2. /\ KeyframePlay(c) => call' \in {[call EXCEPT ![c].at = "wait", ![c].handle = Len(preview) + 1]}
                                  \cup {[call EXCEPT ![c].at = "remove", ![c].result = e] : e \in Codes}
          /\ KeyframeWake(c) => call' = [call EXCEPT ![c].at = "stop", ![c].arrived = grab[call[c].k].over]
          /\ KeyframeStop(c) => call' \in {[call EXCEPT ![c].at = "remove"], [call EXCEPT ![c].at = "remove", ![c].result = StopError]}
      BY DEF KeyframePlay, KeyframeWake, KeyframeStop, Move
    <3> QED BY <1>0, <2>3, <3>1, <3>2 DEF Capture
  <2> QED BY <1>2, <2>1, <2>2, <2>3 DEF Captured
<1>3. CASE Searches(c)
  <2>1. CASE FindBegin(c)
    BY <1>b, <1>s, <2>1 DEF FindBegin
  <2>2. CASE FindNext(c)
    <3>1. call[c] \in Finding
      BY <1>0, <2>2, KindOf DEF FindNext
    <3>2. \/ call' = call
          \/ call' = [call EXCEPT ![c].at = "close"]
          \/ call' = [call EXCEPT ![c].at = "close", ![c].result = "ValueError"]
      BY <2>2 DEF FindNext, Move
    <3>3. call[c].op # "update"
      BY <3>1 DEF Finding, Finder
    <3>4. call'[c].op = call[c].op
      BY <1>0, <3>1, <3>2 DEF Finding
    <3> QED BY <3>3, <3>4
  <2>3. CASE FindClose(c)
    <3>1. call[c] \in Finding /\ Finish(c, call[c].result)
      BY <1>0, <2>3, KindOf DEF FindClose
    <3> QED BY <1>f, <3>1 DEF Finding, Finder
  <2> QED BY <1>3, <2>1, <2>2, <2>3 DEF Searches
<1>4. CASE Exports(c)
  <2>1. CASE ExportBegin(c)
    BY <1>b, <2>1 DEF ExportBegin
  <2>2. CASE Fetch(c) \/ Publish(c) \/ Unlink(c)
    <3>1. call[c] \in Export
      BY <1>0, <2>2, KindOf DEF Fetch, Publish, Unlink, At
    <3>2. \/ \E l : Move(c, l)
          \/ \E e : Finish(c, e)
          \/ \E e : call' = [call EXCEPT ![c].at = "unlink", ![c].result = e]
      BY <2>2 DEF Fetch, Publish, Unlink
    <3> QED BY <1>0, <1>f, <3>1, <3>2 DEF Export, Move
  <2> QED BY <1>4, <2>1, <2>2 DEF Exports
<1>5. CASE Sets(c)
  <2>1. CASE SetNode(c)
    BY <1>b, <1>s, <2>1 DEF SetNode
  <2>2. CASE SetNodeWrite(c)
    <3>1. call[c] \in Node /\ \E e : Finish(c, e)
      BY <1>0, <2>2, KindOf DEF SetNodeWrite, At
    <3> QED BY <1>f, <3>1 DEF Node
  <2> QED BY <1>5, <2>1, <2>2 DEF Sets
<1>6. CASE Motions(c)
  <2>1. CASE MotionRead(c)
    BY <1>b, <1>s, <2>1 DEF MotionRead
  <2>2. CASE MotionEdit(c) \/ MotionReread(c)
    <3>1. call[c] \in Motion
      BY <1>0, <2>2, KindOf DEF MotionEdit, MotionReread, At
    <3>2. Move(c, "reread") \/ \E e : Finish(c, e)
      BY <2>2 DEF MotionEdit, MotionReread
    <3> QED BY <1>0, <1>f, <3>1, <3>2 DEF Motion, Move
  <2> QED BY <1>6, <2>1, <2>2 DEF Motions
<1> QED BY <1>1, <1>2, <1>3, <1>4, <1>5, <1>6

\* An update in progress is taken further by its own steps only.
LEMMA OnlyUpdates ==
  ASSUME Types, NEW c \in Caller, Updating(call[c]),
         Asks(c) \/ Captured(c) \/ Searches(c) \/ Exports(c) \/ Sets(c) \/ Motions(c)
  PROVE  FALSE
<1>0. call[c].op = "update" /\ call[c].at \in {"write", "verify", "return"} /\ ~Free(c)
  BY KindOf DEF Types, Updating, Updated, Free
<1>1. CASE Asks(c) \/ Sets(c) \/ Motions(c)
  BY <1>0, <1>1 DEF Asks, Ask, AskFaces, Jpeg, JpegAgain, Sets, SetNode, SetNodeWrite,
       Motions, MotionRead, MotionEdit, MotionReread, At
<1>2. CASE Captured(c)
  BY <1>0, <1>2 DEF Captured, KeyframeBegin, KeyframePlay, KeyframeWake, KeyframeStop, KeyframeEnd, At
<1>3. CASE Searches(c) \/ Exports(c)
  BY <1>0, <1>3 DEF Searches, FindBegin, FindNext, FindClose, Exports, ExportBegin, Fetch, Publish, Unlink, At
<1> QED BY <1>1, <1>2, <1>3

\* What an update in progress has read, what it has written, or what it is about to say, is
\* among what the profiles have been since.
Told(c) == LET u == call[c] IN Updating(u) =>
    /\ u.at = "write" => u.session \in since[c] /\ u.session[u.profile] = u.baseline
    /\ u.at = "verify" => encode \in since[c]
    /\ u.at = "return" /\ u.result = "updated" => \E m \in since[c] : m[u.profile] = u.value
    /\ u.at = "return" /\ u.result = "verification_mismatch" =>
         \E v \in Setting \ {u.value} : \E m \in since[c] : m[u.profile] = v

\* Whose step it is that changes the call of c, and when it is one of an update.
LEMMA OwnStep ==
  ASSUME Types, [Next]_vars, NEW c \in Caller, call'[c] # call[c]
  PROVE  /\ Updating(call[c]) => Updates(c)
         /\ Updating(call'[c]) => Updates(c)
<1>1. ~(Logout \/ OtherEdit \/ UNCHANGED vars \/ \E k \in DOMAIN preview : NativeEnter(k) \/ Dispatch(k) \/ OnData(k))
  BY DEF Logout, OtherEdit, vars, NativeEnter, Dispatch, OnData
<1>2. PICK d \in Caller : Asks(d) \/ Captured(d) \/ Searches(d) \/ Exports(d) \/ Sets(d) \/ Updates(d) \/ Motions(d)
  BY <1>1, NextCases
<1>3. d = c
  BY <1>2, Alone
<1> QED BY <1>2, <1>3, OnlyUpdates, NotUpdate DEF Updating

\* What has to be told is kept.
LEMMA ToldStep ==
  ASSUME Types, Types', \A c \in Caller : Told(c), [Next]_vars, NEW c \in Caller
  PROVE  Told(c)'
<1> SUFFICES ASSUME Updating(call'[c]), ~UNCHANGED vars PROVE Told(c)'
  BY DEF Told, vars, Updating
<1>0. call \in [Caller -> Call] /\ encode \in Encode /\ Told(c) /\ Remember
  BY DEF Types, Next
<1>1. since'[c] = IF call'[c].at # call[c].at /\ call'[c].at \in {"write", "verify"} THEN {encode'}
                  ELSE since[c] \cup {encode'}
  BY <1>0 DEF Remember
<1>2. CASE call'[c] = call[c]
  BY <1>0, <1>1, <1>2 DEF Told
<1>3. CASE call'[c] # call[c]
  <2>1. Updates(c)
    BY <1>3, OwnStep
  <2>2. CASE Update(c)
    <3>1. encode' = encode /\ call[c].at = "done"
      BY <2>2 DEF Update, Free, device
    <3>2. PICK p \in Profile, v, baseline \in Setting :
            \/ IF encode[p] = baseline
               THEN Begin(c, [op |-> "update", at |-> "write", result |-> None, profile |-> p,
                              value |-> v, baseline |-> baseline, session |-> encode])
               ELSE Begin(c, Single("update", "conflict"))
            \/ \E e \in Codes : Begin(c, Single("update", e))
      BY <2>2, Zenon DEF Update
    <3>3. \A r : Begin(c, r) => call'[c] = r
      BY <1>0 DEF Begin
    <3>4. \A e : Single("update", e).at = "done"
      BY DEF Single
    <3>5. /\ encode[p] = baseline
          /\ call'[c] = [op |-> "update", at |-> "write", result |-> None, profile |-> p,
                         value |-> v, baseline |-> baseline, session |-> encode]
      BY <3>2, <3>3, <3>4 DEF Updating
    <3>6. since'[c] = {encode}
      BY <1>1, <3>1, <3>5
    <3> QED BY <3>1, <3>5, <3>6 DEF Told
  <2>3. CASE UpdateWrite(c)
    <3>1. call[c] \in Updated /\ call[c].at = "write"
      BY <1>0, <2>3, KindOf DEF UpdateWrite, At
    <3>2. Move(c, "verify") \/ Finish(c, "write_unconfirmed")
      BY <2>3 DEF UpdateWrite
    <3>3. call'[c].at = "verify"
      BY <1>0, <3>1, <3>2 DEF Move, Finish, Updating, Updated
    <3>4. since'[c] = {encode'}
      BY <1>1, <3>1, <3>3
    <3> QED BY <3>3, <3>4 DEF Told
  <2>4. CASE UpdateVerify(c)
    <3> DEFINE e == IF encode[call[c].profile] = call[c].value THEN "updated" ELSE "verification_mismatch"
    <3>1. call[c] \in Updated /\ call[c].at = "verify" /\ encode' = encode
      BY <1>0, <2>4, KindOf DEF UpdateVerify, At, device
    <3>2. call' = [call EXCEPT ![c].at = "return", ![c].result = e] \/ Finish(c, "verification_unavailable")
      BY <2>4 DEF UpdateVerify, Verified
    <3> HIDE DEF e
    <3>3. /\ call'[c].at = "return" /\ call'[c].result = e
          /\ call'[c].profile = call[c].profile /\ call'[c].value = call[c].value
      BY <1>0, <3>1, <3>2 DEF Finish, Updating, Updated
    <3>4. since'[c] = since[c] \cup {encode} /\ encode \in since'[c]
      BY <1>1, <3>1, <3>3
    <3>5. encode[call[c].profile] \in Setting
      BY <1>0, <3>1 DEF Updated, Encode
    <3> QED BY <3>3, <3>4, <3>5 DEF Told, e
  <2>5. CASE UpdateReturn(c)
    <3>1. call[c] \in Updated /\ Finish(c, call[c].result)
      BY <1>0, <2>5, KindOf DEF UpdateReturn, At
    <3>2. call'[c].at = "done"
      BY <1>0, <3>1 DEF Finish, Updated
    <3> QED BY <3>2 DEF Updating
  <2> QED BY <2>1, <2>2, <2>3, <2>4, <2>5 DEF Updates
<1> QED BY <1>2, <1>3

\* An update writes what it says and says what it wrote, whatever others edit meanwhile.
THEOREM UpdatesCorrect == Spec => UpdatesHonest
<1> DEFINE Honest(c) ==
      LET u == call[c]
          Had(v) == \E m \in since[c] : m[u.profile] = v
      IN  /\ u.at = "write" /\ encode' # encode =>
                \E m \in since[c] : /\ m[u.profile] = u.baseline
                                   /\ encode' = [m EXCEPT ![u.profile] = u.value]
          /\ call'[c].at = "done" /\ call'[c].result = "updated" => Had(u.value)
          /\ call'[c].at = "done" /\ call'[c].result = "verification_mismatch" =>
                \E v \in Setting \ {u.value} : Had(v)
    A == \A c \in Caller : Updating(call[c]) /\ call'[c] # call[c] => Honest(c)
    TInv == SInv /\ \A c \in Caller : Told(c)
<1>1. TInv /\ [Next]_vars => A
  <2> SUFFICES ASSUME TInv, [Next]_vars, NEW c \in Caller, Updating(call[c]), call'[c] # call[c]
               PROVE  Honest(c)
    OBVIOUS
  <2>0. Types /\ Told(c) /\ call \in [Caller -> Call] /\ call[c] \in Updated
    BY KindOf DEF SInv, Types
  <2>1. UpdateWrite(c) \/ UpdateVerify(c) \/ UpdateReturn(c)
    BY <2>0, OwnStep DEF Updates, Update, Free, Updating
  <2>2. CASE UpdateWrite(c)
    <3>1. call[c].at = "write" /\ encode' \in {encode, Patched(call[c].session, call[c].profile, call[c].value)}
      BY <2>2 DEF UpdateWrite, At
    <3>2. Served(call[c].session) = call[c].session
      BY <2>0, ServedAssumption DEF Served, Updated, Encode
    <3>3. call[c].session \in since[c] /\ call[c].session[call[c].profile] = call[c].baseline
      BY <2>0, <3>1 DEF Told
    <3>4. encode' # encode =>
             \E m \in since[c] : /\ m[call[c].profile] = call[c].baseline
                                /\ encode' = [m EXCEPT ![call[c].profile] = call[c].value]
      BY <3>1, <3>2, <3>3 DEF Patched
    <3>5. call'[c].at = "verify" \/ call'[c].result = "write_unconfirmed"
      BY <2>0, <2>2 DEF UpdateWrite, Move, Finish, Updated
    <3> QED BY <3>4, <3>5
  <2>3. CASE UpdateVerify(c)
    <3>1. call[c].at = "verify" /\ encode' = encode
      BY <2>3 DEF UpdateVerify, At, device
    <3>2. call'[c].at = "return" \/ call'[c].result = "verification_unavailable"
      BY <2>0, <2>3 DEF UpdateVerify, Finish, Updated
    <3> QED BY <3>1, <3>2
  <2>4. CASE UpdateReturn(c)
    <3>1. call[c].at = "return" /\ encode' = encode
      BY <2>4 DEF UpdateReturn, At, device
    <3>2. call'[c].result = call[c].result
      BY <2>0, <2>4 DEF UpdateReturn, Finish, Updated
    <3> QED BY <2>0, <3>1, <3>2 DEF Told
  <2> QED BY <2>1, <2>2, <2>3, <2>4
<1>2. Init => TInv
  <2>1. Init => \A c \in Caller : Told(c)
    BY DEF Init, Told, Updating, NoCall
  <2> QED BY <2>1, SInvInit
<1>3. TInv /\ [Next]_vars => TInv'
  <2> SUFFICES ASSUME TInv, [Next]_vars PROVE TInv'
    OBVIOUS
  <2>1. SInv' /\ Types /\ Types'
    BY SInvStep DEF SInv
  <2>2. ASSUME NEW c \in Caller PROVE Told(c)'
    BY <2>1, ToldStep
  <2> QED BY <2>1, <2>2
<1>4. TInv /\ [Next]_vars => [A]_vars
  BY <1>1
<1> HIDE DEF TInv, A
<1>5. Spec => [][A]_vars
  BY <1>2, <1>3, <1>4, PTL DEF Spec
<1> QED BY <1>5 DEF UpdatesHonest, A
=============================================================================
