-------------------------- MODULE SkinsystemProofs --------------------------
(***************************************************************************)
(* Proofs about Skinsystem, for any representation of nil and of errors:   *)
(* what the answers of each endpoint may say, by what the handler knows at *)
(* each of its steps.                                                      *)
(***************************************************************************)
EXTENDS Skinsystem, TLAPS

\* What has been read, asked and found by the time of each step, and that only
\* profileHandler signs.
Unanswered ==
  /\ at \notin {"done", "find"} => record # Error
  /\ at = "find" => record = Nil /\ answer = Nil /\ profile = Nil
  /\ at \in {"cape", "mojang", "sign"} => profile # Nil
  /\ at \in {"find", "cape", "mojang"} => asked = FALSE /\ answer = Nil
  /\ at = "sign" => request.endpoint = "profile" /\ request.sign

\* getProfile has this server's identity for who is known, and Mojang's is
\* asked for by whoever has none. A value is signed by whom it comes from.
Identified ==
  /\ at \in {"cape", "mojang"} => profile.id = IF Known THEN "here" ELSE Nil
  /\ profile # Nil =>
       /\ profile.id = profile.name
       /\ Known => profile.id # "mojang"
       /\ profile.signature = profile.value

\* A local skin is there from the moment it is found.
LocalSkin ==
  /\ Known /\ record.url =>
       /\ ~asked /\ at # "mojang"
       /\ at \notin {"find", "done"} =>
            /\ profile # Nil /\ profile.textures # Nil
            /\ profile.textures.skin = "here" /\ profile.id = "here"
  /\ at = "cape" => Known /\ record.url

\* An error of Mojang ends the request of an unknown user.
ErrorsEnd == at # "done" /\ ~Known => answer # Error

IInv == /\ TypeOK /\ Unanswered /\ Identified /\ LocalSkin /\ ErrorsEnd
        /\ LocalSkinIsServed /\ FailureIsNotAbsence /\ OneIdentity /\ SignatureFitsValue

-----------------------------------------------------------------------------
(* Profiles and replies *)

LEMMA ProfileTypes ==
  /\ EmptyProfile \in Profile /\ NoTextures \in Textures
  /\ MojangTextures \subseteq Textures
  /\ \A p \in Profile : p # Nil /\ DOMAIN p = DOMAIN EmptyProfile
  BY MarkersAssumption DEF EmptyProfile, Profile, NoTextures, Textures, MojangTextures, Maybe, Sources

LEMMA MadeProfile ==
  ASSUME NEW i \in Maybe, NEW n \in Maybe, NEW t \in Textures \cup {Nil}, NEW f \in BOOLEAN,
         NEW v \in Maybe, NEW x \in Maybe
  PROVE  [id |-> i, name |-> n, textures |-> t, file |-> f, value |-> v, signature |-> x] \in Profile
  BY DEF Profile

LEMMA KnownProfile ==
  ASSUME NEW k, k = [EmptyProfile EXCEPT !.id = "here", !.name = "here"]
  PROVE  k = [id |-> "here", name |-> "here", textures |-> NoTextures, file |-> FALSE,
              value |-> Nil, signature |-> Nil]
  BY DEF EmptyProfile, NoTextures

LEMMA ReplyTypes ==
  /\ \A s \in {200, 204, 301, 404, 500} : [NoReply EXCEPT !.status = s] \in Reply
  /\ \A s \in {200, 204, 301, 404, 500}, p \in Profile, x \in Maybe :
       [status |-> s, profile |-> p, signature |-> x] \in Reply
  BY ProfileTypes DEF NoReply, Reply, Maybe

\* What a request is answered with when there is nothing to send.
LEMMA Nothing ==
  ASSUME NEW s \in {200, 204, 404, 500}
  PROVE  LET r == [NoReply EXCEPT !.status = s]
         IN  r.status = s /\ r.profile.id = Nil /\ r.profile.name = Nil /\ r \in Reply
<1>1. [NoReply EXCEPT !.status = s] = [status |-> s, profile |-> EmptyProfile, signature |-> Nil]
  BY DEF NoReply
<1>2. EmptyProfile.id = Nil /\ EmptyProfile.name = Nil
  BY DEF EmptyProfile
<1> QED BY <1>1, <1>2, ReplyTypes

\* As long as a request is not answered nothing can be wrong with the answer.
LEMMA NotYet ==
  at # "done" => LocalSkinIsServed /\ FailureIsNotAbsence /\ OneIdentity /\ SignatureFitsValue
  BY DEF LocalSkinIsServed, FailureIsNotAbsence, OneIdentity, SignatureFitsValue, Done

LEMMA NextNotYet ==
  at' # "done" => LocalSkinIsServed' /\ FailureIsNotAbsence' /\ OneIdentity' /\ SignatureFitsValue'
  BY DEF LocalSkinIsServed, FailureIsNotAbsence, OneIdentity, SignatureFitsValue, Done

\* A panic is answered with 500 and nothing else.
LEMMA Panics ==
  ASSUME Panic, request' \in Requests
  PROVE  /\ at' = "done" /\ reply' \in Reply /\ reply'.status = 500
         /\ FailureIsNotAbsence' /\ OneIdentity' /\ SignatureFitsValue'
<1>1. /\ at' = "done" /\ reply' \in Reply /\ reply'.status = 500
      /\ reply'.profile.id = Nil /\ reply'.profile.name = Nil
  BY Nothing DEF Panic
<1> QED BY <1>1, MarkersAssumption DEF FailureIsNotAbsence, OneIdentity, SignatureFitsValue, Sources

-----------------------------------------------------------------------------
(* The steps *)

LEMMA InitIInv == Init => IInv
<1> SUFFICES ASSUME Init PROVE IInv
  OBVIOUS
<1>1. NoReply \in Reply
  BY ProfileTypes DEF NoReply, Reply, Maybe
<1>2. TypeOK
  BY <1>1 DEF Init, TypeOK
<1>3. Unanswered /\ Identified /\ LocalSkin /\ ErrorsEnd
  BY MarkersAssumption DEF Init, Unanswered, Identified, Known, LocalSkin, ErrorsEnd
<1>4. at # "done"
  BY DEF Init
<1> QED BY <1>2, <1>3, <1>4, NotYet DEF IInv

LEMMA FindSkinStep == IInv /\ FindSkin => IInv'
<1> SUFFICES ASSUME IInv, FindSkin PROVE IInv'
  OBVIOUS
<1> DEFINE known == [EmptyProfile EXCEPT !.id = "here", !.name = "here"]
<1>1. /\ at = "find" /\ request \in Requests /\ answer = Nil /\ asked = FALSE /\ profile = Nil
      /\ reply \in Reply /\ UNCHANGED << request, answer, asked >>
  BY DEF FindSkin, IInv, TypeOK, Unanswered
<1>2. PICK r \in Records \cup {Nil, Error} :
        /\ record' = r
        /\ \/ r = Error /\ Panic /\ UNCHANGED profile
           \/ /\ r \in Records /\ r.url
              /\ at' = "cape"
              /\ profile' = [known EXCEPT !.textures.skin = "here",
                               !.value = IF r.signed THEN "here" ELSE Nil,
                               !.signature = IF r.signed THEN "here" ELSE Nil]
              /\ UNCHANGED reply
           \/ /\ r = Nil \/ (r \in Records /\ ~r.url)
              /\ LET p == IF r = Nil THEN EmptyProfile ELSE known
                 IN  IF Proxied THEN at' = "mojang" /\ profile' = p
                     ELSE Got(IF r = Nil THEN Nil ELSE p)
              /\ UNCHANGED reply
  BY DEF FindSkin
<1>3. CASE r = Error /\ Panic /\ UNCHANGED profile
  <2>1. ~ Known' /\ at' = "done" /\ reply' \in Reply
    BY <1>1, <1>2, <1>3, Panics, MarkersAssumption DEF Known
  <2>2. TypeOK'
    BY <1>1, <1>2, <1>3, <2>1 DEF TypeOK
  <2>3. Unanswered' /\ Identified'
    BY <1>1, <1>3, <2>1 DEF Unanswered, Identified
  <2>4. LocalSkin' /\ ErrorsEnd' /\ LocalSkinIsServed'
    BY <1>1, <1>3, <2>1 DEF LocalSkin, ErrorsEnd, LocalSkinIsServed
  <2> QED BY <1>1, <1>3, <2>2, <2>3, <2>4, Panics DEF IInv
<1>4. CASE r \in Records /\ r.url /\ at' = "cape"
  <2>1. profile' = [id |-> "here", name |-> "here", textures |-> [skin |-> "here", cape |-> Nil],
                    file |-> FALSE, value |-> IF r.signed THEN "here" ELSE Nil,
                    signature |-> IF r.signed THEN "here" ELSE Nil]
        /\ UNCHANGED reply
    BY <1>2, <1>4, MarkersAssumption DEF EmptyProfile, NoTextures, Panic, Got
  <2>2. profile' \in Profile /\ profile' # Nil /\ profile'.textures \in Textures /\ profile'.textures # Nil
    <3>1. [skin |-> "here", cape |-> Nil] \in Textures
      BY DEF Textures, Maybe, Sources
    <3>2. (IF r.signed THEN "here" ELSE Nil) \in Maybe /\ "here" \in Maybe
      BY DEF Maybe, Sources
    <3>3. profile' \in Profile
      BY <2>1, <3>1, <3>2, MadeProfile
    <3> QED BY <2>1, <3>1, <3>3, MarkersAssumption
  <2>3. TypeOK'
    BY <1>1, <1>2, <1>4, <2>1, <2>2 DEF TypeOK
  <2>4. Unanswered' /\ Identified' /\ LocalSkin' /\ ErrorsEnd'
    BY <1>1, <1>2, <1>4, <2>1, <2>2, MarkersAssumption
       DEF Unanswered, Identified, LocalSkin, ErrorsEnd, Known, Sources
  <2> QED BY <1>4, <2>3, <2>4, NextNotYet DEF IInv
<1>5. CASE /\ r = Nil \/ (r \in Records /\ ~r.url)
           /\ LET p == IF r = Nil THEN EmptyProfile ELSE known
              IN  IF Proxied THEN at' = "mojang" /\ profile' = p
                  ELSE Got(IF r = Nil THEN Nil ELSE p)
           /\ UNCHANGED reply
  <2>1. known = [id |-> "here", name |-> "here", textures |-> NoTextures, file |-> FALSE,
                 value |-> Nil, signature |-> Nil]
    BY KnownProfile
  <2>2. known \in Profile /\ EmptyProfile \in Profile /\ known # Nil /\ EmptyProfile # Nil
    BY <2>1, ProfileTypes DEF Profile, Maybe, Sources
  <2>3. at' \in {"mojang", "respond"} /\ profile' \in {known, EmptyProfile, Nil}
        /\ (at' = "mojang" => profile' = IF r = Nil THEN EmptyProfile ELSE known)
        /\ (r # Nil => profile' = known)
        /\ (profile' = known => r # Nil)
    <3>1. known # EmptyProfile
      BY <2>1, MarkersAssumption DEF EmptyProfile, Sources
    <3> HIDE DEF known
    <3> QED BY <1>5, <2>2, <3>1 DEF Got
  <2>4. TypeOK'
    BY <1>1, <1>2, <1>5, <2>2, <2>3 DEF TypeOK
  <2>5. (Known' <=> r # Nil) /\ r # Error
    BY <1>2, <1>5, MarkersAssumption DEF Known
  <2>6. /\ known.id = "here" /\ known.name = "here" /\ known.signature = known.value
        /\ EmptyProfile.id = Nil /\ EmptyProfile.name = Nil
        /\ EmptyProfile.signature = EmptyProfile.value
    BY <2>1 DEF EmptyProfile
  <2> HIDE DEF known
  <2>7. Unanswered' /\ ErrorsEnd'
    BY <1>1, <1>2, <2>2, <2>3, <2>5, MarkersAssumption DEF Unanswered, ErrorsEnd
  <2>8. Identified'
    BY <2>2, <2>3, <2>5, <2>6, MarkersAssumption DEF Identified, Sources
  <2>9. LocalSkin'
    BY <1>2, <1>5, <2>3, <2>5 DEF LocalSkin
  <2>10. at' # "done"
    BY <2>3
  <2> QED BY <2>4, <2>7, <2>8, <2>9, <2>10, NextNotYet DEF IInv
<1> QED BY <1>2, <1>3, <1>4, <1>5

\* A profile with a skin is given a cape.
LEMMA WithCape ==
  ASSUME NEW p \in Profile, p.textures # Nil,
         NEW q, q = [p EXCEPT !.file = TRUE, !.textures.cape = "here"]
  PROVE  /\ q \in Profile /\ q # Nil
         /\ q.id = p.id /\ q.name = p.name /\ q.value = p.value /\ q.signature = p.signature
         /\ q.textures \in Textures /\ q.textures # Nil /\ q.textures.skin = p.textures.skin
<1>1. p.textures \in Textures /\ p.id \in Maybe /\ p.name \in Maybe /\ p.value \in Maybe /\ p.signature \in Maybe
  BY DEF Profile
<1>2. PICK t \in Textures : t = [p.textures EXCEPT !.cape = "here"] /\ t.skin = p.textures.skin
  <2>1. [p.textures EXCEPT !.cape = "here"] \in Textures
    BY <1>1 DEF Textures, Maybe, Sources
  <2>2. [p.textures EXCEPT !.cape = "here"].skin = p.textures.skin
    BY <1>1 DEF Textures
  <2> QED BY <2>1, <2>2
<1>3. q = [id |-> p.id, name |-> p.name, textures |-> t, file |-> TRUE,
           value |-> p.value, signature |-> p.signature]
  BY <1>2 DEF Profile
<1>4. q \in Profile
  <2>1. [id |-> p.id, name |-> p.name, textures |-> t, file |-> TRUE,
         value |-> p.value, signature |-> p.signature] \in Profile
    BY <1>1, MadeProfile
  <2> QED BY <1>3, <2>1, Zenon
<1> QED BY <1>2, <1>3, <1>4, MarkersAssumption

LEMMA FindCapeStep == IInv /\ FindCape => IInv'
<1> SUFFICES ASSUME IInv, FindCape PROVE IInv'
  OBVIOUS
<1>1. /\ at = "cape" /\ at' = "respond"
      /\ UNCHANGED << request, record, answer, asked, reply >>
      /\ profile' = profile \/ profile' = [profile EXCEPT !.file = TRUE, !.textures.cape = "here"]
  BY DEF FindCape, Got
<1>2. /\ TypeOK /\ Known /\ record.url /\ asked = FALSE /\ answer = Nil /\ record # Error
      /\ profile \in Profile /\ profile # Nil /\ profile.textures # Nil
      /\ profile.textures.skin = "here" /\ profile.id = "here" /\ profile.name = "here"
      /\ profile.signature = profile.value
  BY <1>1 DEF IInv, TypeOK, Unanswered, LocalSkin, Identified
<1>3. /\ profile' \in Profile /\ profile' # Nil /\ profile'.textures # Nil
      /\ profile'.textures.skin = "here" /\ profile'.id = "here" /\ profile'.name = "here"
      /\ profile'.signature = profile'.value
  BY <1>1, <1>2, WithCape
<1>4. TypeOK'
  BY <1>1, <1>2, <1>3 DEF TypeOK
<1>5. Unanswered' /\ Identified'
  BY <1>1, <1>2, <1>3 DEF Unanswered, Identified, Known
<1>6. LocalSkin' /\ ErrorsEnd'
  BY <1>1, <1>2, <1>3 DEF LocalSkin, ErrorsEnd, Known
<1> QED BY <1>1, <1>4, <1>5, <1>6, NextNotYet DEF IInv

\* Mojang's part of a profile.
LEMMA MergedProfile ==
  ASSUME NEW p \in Profile, NEW m \in MojangProfiles, p.id = p.name
  PROVE  /\ Merged(p, m) \in Profile
         /\ Merged(p, m).id = (IF p.id = Nil THEN "mojang" ELSE p.id)
         /\ Merged(p, m).name = Merged(p, m).id
         /\ Merged(p, m).signature = Merged(p, m).value
<1> DEFINE source == IF m.property = "none" THEN Nil ELSE "mojang"
           t == IF m.property = "none" THEN p.textures ELSE m.textures
           i == IF p.id = Nil THEN "mojang" ELSE p.id
<1>1. p.textures \in Textures \cup {Nil} /\ p.id \in Maybe /\ p.name \in Maybe /\ p.file \in BOOLEAN
  BY DEF Profile
<1>2. m.textures \in Textures \cup {Nil}
  BY ProfileTypes DEF MojangProfiles
<1>3. source \in Maybe /\ t \in Textures \cup {Nil} /\ i \in Maybe
  BY <1>1, <1>2 DEF Maybe, Sources
<1>4. ASSUME NEW q, q = Merged(p, m)
      PROVE  q = [id |-> i, name |-> i, textures |-> t, file |-> p.file,
                  value |-> source, signature |-> source]
  BY <1>4 DEF Merged, Profile
<1> HIDE DEF source, t, i
<1>5. PICK q : q = Merged(p, m)
  OBVIOUS
<1>6. q \in Profile
  BY <1>1, <1>3, <1>4, <1>5, MadeProfile
<1> QED BY <1>4, <1>5, <1>6 DEF i

LEMMA AskMojangStep == IInv /\ AskMojang => IInv'
<1> SUFFICES ASSUME IInv, AskMojang PROVE IInv'
  OBVIOUS
<1>1. PICK m \in MojangProfiles \cup {Nil, Error} :
        /\ answer' = m
        /\ \/ m = Error /\ profile.id # Nil /\ Got(profile) /\ UNCHANGED reply
           \/ m = Error /\ profile.id = Nil /\ Panic /\ UNCHANGED profile
           \/ m = Nil /\ Got(Nil) /\ UNCHANGED reply
           \/ /\ m \in MojangProfiles
              /\ IF m.property = "garbled" THEN Panic /\ UNCHANGED profile
                 ELSE Got(Merged(profile, m)) /\ UNCHANGED reply
  BY DEF AskMojang
<1>2. /\ at = "mojang" /\ asked' = TRUE /\ UNCHANGED << request, record >>
      /\ request \in Requests /\ record \in Records \cup {Nil, Error} /\ record # Error
      /\ profile \in Profile /\ profile # Nil /\ reply \in Reply
      /\ profile.id = (IF Known THEN "here" ELSE Nil) /\ profile.name = profile.id
      /\ profile.signature = profile.value
      /\ ~ (Known /\ record.url)
  BY DEF AskMojang, IInv, TypeOK, Unanswered, Identified, LocalSkin
<1>3. (Known' <=> Known) /\ request' \in Requests
  BY <1>2 DEF Known
<1>4. CASE Panic /\ UNCHANGED profile
  <2>1. TypeOK'
    BY <1>1, <1>2, <1>3, <1>4, Panics DEF TypeOK
  <2>2. Unanswered' /\ ErrorsEnd'
    BY <1>2, <1>3, <1>4, Panics DEF Unanswered, ErrorsEnd
  <2>3. Identified'
    BY <1>2, <1>3, <1>4, Panics, MarkersAssumption DEF Identified, Sources
  <2>4. LocalSkin' /\ LocalSkinIsServed'
    BY <1>2, <1>3, <1>4, Panics DEF LocalSkin, LocalSkinIsServed
  <2> QED BY <1>3, <1>4, <2>1, <2>2, <2>3, <2>4, Panics DEF IInv
<1>5. ASSUME NEW p \in Profile \cup {Nil}, Got(p), UNCHANGED reply, Known \/ m # Error,
             p # Nil => /\ p.id = p.name /\ p.signature = p.value
                        /\ Known => p.id # "mojang"
      PROVE  IInv'
  <2>1. at' = "respond" /\ profile' = p
    BY <1>5 DEF Got
  <2>2. TypeOK'
    BY <1>1, <1>2, <1>3, <1>5, <2>1 DEF TypeOK
  <2>3. Unanswered' /\ ErrorsEnd'
    BY <1>1, <1>2, <1>3, <1>5, <2>1 DEF Unanswered, ErrorsEnd
  <2>4. Identified' /\ LocalSkin'
    BY <1>2, <1>3, <1>5, <2>1 DEF Identified, LocalSkin
  <2> QED BY <2>1, <2>2, <2>3, <2>4, NextNotYet DEF IInv
<1>6. "here" # "mojang" /\ (Known => profile.id # Nil)
  BY <1>2, MarkersAssumption DEF Sources
<1>7. CASE m = Error /\ profile.id # Nil /\ Got(profile) /\ UNCHANGED reply
  BY <1>2, <1>5, <1>6, <1>7
<1>8. CASE m = Nil /\ Got(Nil) /\ UNCHANGED reply
  BY <1>5, <1>8, MarkersAssumption
<1>9. CASE m \in MojangProfiles /\ Got(Merged(profile, m)) /\ UNCHANGED reply
  <2>1. /\ Merged(profile, m) \in Profile
        /\ Merged(profile, m).id = Merged(profile, m).name
        /\ Merged(profile, m).signature = Merged(profile, m).value
        /\ Known => Merged(profile, m).id # "mojang"
    BY <1>2, <1>6, <1>9, MergedProfile
  <2>2. m # Error
    BY <1>9, MarkersAssumption
  <2> QED BY <1>5, <1>9, <2>1, <2>2
<1> QED BY <1>1, <1>4, <1>7, <1>8, <1>9

-----------------------------------------------------------------------------
(* The answers *)

\* A handler that answers without having changed the profile.
LEMMA Answers ==
  ASSUME IInv, at \in {"respond", "sign"}, at' = "done", reply' \in Reply,
         UNCHANGED << request, record, answer, asked, profile >>
  PROVE  TypeOK' /\ Unanswered' /\ Identified' /\ LocalSkin' /\ ErrorsEnd'
<1>1. TypeOK'
  BY DEF IInv, TypeOK
<1>2. Unanswered' /\ ErrorsEnd'
  BY DEF IInv, Unanswered, ErrorsEnd
<1>3. Identified' /\ LocalSkin'
  BY DEF IInv, Identified, LocalSkin, Known
<1> QED BY <1>1, <1>2, <1>3

\* What is sent of a profile, or nothing.
LEMMA RespondStep == IInv /\ Respond => IInv'
<1> SUFFICES ASSUME IInv, Respond PROVE IInv'
  OBVIOUS
<1>1. /\ at = "respond" /\ at' = "done" /\ request.endpoint # "profile"
      /\ UNCHANGED << request, record, answer, asked, profile >>
      /\ request.endpoint \in {"skin", "cape", "textures", "signed", "profile"}
  BY DEF Respond, IInv, TypeOK, Requests
<1>2. \/ /\ \E s \in {204, 404} : Answer(s)
         /\ request.endpoint \in {"skin", "textures"} => ~ HasSkin
      \/ /\ profile # Nil
         /\ \E s \in {200, 301} : Send(s, profile, Nil)
         /\ request.endpoint \in {"skin", "cape", "textures"}
      \/ profile # Nil /\ Send(200, profile, profile.signature) /\ request.endpoint = "signed"
  <2>1. CASE request.endpoint = "skin"
    BY <1>1, <2>1 DEF Respond, SkinHandler, HasSkin
  <2>2. CASE request.endpoint = "cape"
    BY <1>1, <2>2 DEF Respond, CapeHandler, HasCape
  <2>3. CASE request.endpoint = "textures"
    BY <1>1, <2>3 DEF Respond, TexturesHandler, HasSkin, HasCape
  <2>4. CASE request.endpoint = "signed"
    BY <1>1, <2>4 DEF Respond, SignedTexturesHandler
  <2> QED BY <1>1, <2>1, <2>2, <2>3, <2>4
<1>3. /\ record # Error /\ (~ Known => answer # Error)
      /\ profile \in Profile \cup {Nil}
      /\ Known /\ record.url => asked = FALSE /\ HasSkin /\ profile.textures.skin = "here" /\ profile.id = "here"
      /\ profile # Nil => /\ profile.id = profile.name /\ profile.signature = profile.value
                          /\ Known => profile.id # "mojang"
  BY <1>1, MarkersAssumption
     DEF IInv, TypeOK, Unanswered, ErrorsEnd, LocalSkin, Identified, HasSkin, Sources
<1>4. (Known' <=> Known) /\ at' = "done" /\ UNCHANGED << request, record, answer, asked >>
  BY <1>1 DEF Known
<1>5. CASE /\ \E s \in {204, 404} : Answer(s)
           /\ request.endpoint \in {"skin", "textures"} => ~ HasSkin
  <2>1. /\ reply' \in Reply /\ reply'.status \in {204, 404}
        /\ reply'.profile.id = Nil /\ reply'.profile.name = Nil
    BY <1>5, Nothing DEF Answer
  <2>2. LocalSkinIsServed'
    BY <1>1, <1>3, <1>4, <1>5 DEF LocalSkinIsServed
  <2>3. FailureIsNotAbsence' /\ OneIdentity' /\ SignatureFitsValue'
    BY <1>3, <1>4, <2>1, MarkersAssumption DEF FailureIsNotAbsence, OneIdentity, SignatureFitsValue, Sources
  <2> QED BY <1>1, <2>1, <2>2, <2>3, Answers DEF IInv
<1>6. ASSUME NEW s \in {200, 301}, NEW x \in Maybe, Send(s, profile, x), profile # Nil,
             request.endpoint = "signed" => x = profile.value
      PROVE  IInv'
  <2>1. /\ reply' \in Reply /\ reply'.status = s
        /\ reply'.profile = profile /\ reply'.signature = x
    BY <1>3, <1>6, ReplyTypes DEF Send
  <2>2. LocalSkinIsServed'
    BY <1>1, <1>3, <1>4, <2>1 DEF LocalSkinIsServed
  <2>3. FailureIsNotAbsence' /\ OneIdentity' /\ SignatureFitsValue'
    BY <1>1, <1>3, <1>4, <1>6, <2>1 DEF FailureIsNotAbsence, OneIdentity, SignatureFitsValue
  <2> QED BY <1>1, <2>1, <2>2, <2>3, Answers DEF IInv
<1>7. Nil \in Maybe /\ (profile # Nil => profile.signature \in Maybe)
  BY <1>3 DEF Maybe, Profile
<1> QED BY <1>2, <1>3, <1>5, <1>6, <1>7

\* The profile of an unknown user, from the parameters of the request.
LEMMA RequestedProfile ==
  ASSUME NEW k, k = [EmptyProfile EXCEPT !.id = "request", !.name = "request"]
  PROVE  k \in Profile /\ k.id = "request" /\ k.name = "request" /\ k.signature = k.value
<1>1. k = [id |-> "request", name |-> "request", textures |-> NoTextures, file |-> FALSE,
           value |-> Nil, signature |-> Nil]
  BY DEF EmptyProfile, NoTextures
<1>2. "request" \in Maybe /\ Nil \in Maybe /\ NoTextures \in Textures /\ FALSE \in BOOLEAN
  BY ProfileTypes DEF Maybe, Sources
<1>3. PICK p \in Profile : p = [id |-> "request", name |-> "request", textures |-> NoTextures,
                               file |-> FALSE, value |-> Nil, signature |-> Nil]
  BY <1>2, MadeProfile
<1>4. p.id = "request" /\ p.name = "request" /\ p.signature = p.value
  BY <1>3
<1> QED BY <1>1, <1>3, <1>4, Zenon

LEMMA ProfileHandlerStep == IInv /\ ProfileHandler => IInv'
<1> SUFFICES ASSUME IInv, ProfileHandler PROVE IInv'
  OBVIOUS
<1>1. /\ at = "respond" /\ request.endpoint = "profile"
      /\ UNCHANGED << request, record, answer, asked >>
      /\ request \in Requests /\ record \in Records \cup {Nil, Error}
      /\ answer \in MojangProfiles \cup {Nil, Error} /\ asked \in BOOLEAN /\ reply \in Reply
  BY DEF ProfileHandler, IInv, TypeOK
<1>2. /\ record # Error /\ (~ Known => answer # Error)
      /\ profile \in Profile \cup {Nil}
      /\ Known /\ record.url =>
           /\ asked = FALSE /\ profile # Nil /\ profile.textures # Nil
           /\ profile.textures.skin = "here" /\ profile.id = "here"
      /\ profile # Nil => /\ profile.id = profile.name /\ profile.signature = profile.value
                          /\ Known => profile.id # "mojang"
  BY <1>1 DEF IInv, TypeOK, Unanswered, ErrorsEnd, LocalSkin, Identified
<1>3. Known' <=> Known
  BY <1>1 DEF Known
<1>4. CASE profile = Nil /\ at' = "done" /\ Answer(204) /\ UNCHANGED profile
  <2>1. /\ reply' \in Reply /\ reply'.status = 204
        /\ reply'.profile.id = Nil /\ reply'.profile.name = Nil
    BY <1>4, Nothing DEF Answer
  <2>2. LocalSkinIsServed'
    BY <1>1, <1>2, <1>3, <1>4 DEF LocalSkinIsServed
  <2>3. FailureIsNotAbsence' /\ OneIdentity' /\ SignatureFitsValue'
    BY <1>1, <1>2, <1>3, <2>1, MarkersAssumption DEF FailureIsNotAbsence, OneIdentity, SignatureFitsValue, Sources
  <2> QED BY <1>1, <1>4, <2>1, <2>2, <2>3, Answers DEF IInv
<1>5. ASSUME NEW p \in Profile, profile' = p, p.id = p.name, p.signature = p.value,
             Known => p.id # "mojang", profile # Nil => p = profile,
             \/ request.sign /\ at' = "sign" /\ UNCHANGED reply
             \/ ~ request.sign /\ at' = "done" /\ Send(200, p, Nil)
      PROVE  IInv'
  <2>1. p # Nil /\ Nil \in Maybe
    BY MarkersAssumption DEF Maybe
  <2>2. /\ reply' \in Reply
        /\ at' = "done" => reply'.status = 200 /\ reply'.profile = p /\ reply'.signature = Nil
    BY <1>1, <1>5, <2>1, ReplyTypes DEF Send
  <2>3. TypeOK'
    BY <1>1, <1>5, <2>2 DEF TypeOK
  <2>4. Unanswered' /\ ErrorsEnd'
    BY <1>1, <1>2, <1>3, <1>5, <2>1 DEF Unanswered, ErrorsEnd
  <2>5. Identified' /\ LocalSkin'
    BY <1>1, <1>2, <1>3, <1>5, <2>1 DEF Identified, LocalSkin
  <2>6. LocalSkinIsServed'
    BY <1>1, <1>2, <1>3, <1>5, <2>2 DEF LocalSkinIsServed, Done
  <2>7. FailureIsNotAbsence' /\ OneIdentity' /\ SignatureFitsValue'
    BY <1>1, <1>2, <1>3, <1>5, <2>2 DEF FailureIsNotAbsence, OneIdentity, SignatureFitsValue, Done
  <2> QED BY <2>3, <2>4, <2>5, <2>6, <2>7 DEF IInv
<1>6. CASE profile # Nil
  BY <1>2, <1>5, <1>6 DEF ProfileHandler
<1>7. CASE profile = Nil /\ request.force
  <2>1. PICK k : k = [EmptyProfile EXCEPT !.id = "request", !.name = "request"]
    OBVIOUS
  <2>2. profile' = k /\ (\/ request.sign /\ at' = "sign" /\ UNCHANGED reply
                         \/ ~ request.sign /\ at' = "done" /\ Send(200, k, Nil))
    BY <1>7, <2>1 DEF ProfileHandler
  <2> QED BY <1>5, <1>7, <2>1, <2>2, RequestedProfile
<1>8. CASE profile = Nil /\ ~ request.force
  BY <1>4, <1>8 DEF ProfileHandler
<1> QED BY <1>6, <1>7, <1>8

LEMMA SignStep == IInv /\ Sign => IInv'
<1> SUFFICES ASSUME IInv, Sign PROVE IInv'
  OBVIOUS
<1>1. /\ at = "sign" /\ at' = "done" /\ request.endpoint = "profile" /\ request.sign
      /\ UNCHANGED << request, record, answer, asked, profile >> /\ request \in Requests
      /\ Send(200, profile, "here") \/ Panic
      /\ profile \in Profile /\ record # Error /\ (~ Known => answer # Error)
      /\ profile.id = profile.name /\ (Known => profile.id # "mojang")
      /\ Known /\ record.url => asked = FALSE
  BY DEF Sign, Panic, IInv, TypeOK, Unanswered, ErrorsEnd, LocalSkin, Identified
<1>2. LocalSkinIsServed'
  BY <1>1 DEF LocalSkinIsServed, Known
<1>3. CASE Panic
  BY <1>1, <1>2, <1>3, Panics, Answers DEF IInv
<1>4. CASE Send(200, profile, "here")
  <2>1. /\ reply' \in Reply /\ reply'.status = 200
        /\ reply'.profile = profile /\ reply'.signature = "here"
    <3>1. "here" \in Maybe
      BY DEF Maybe, Sources
    <3> QED BY <1>1, <1>4, <3>1, ReplyTypes DEF Send
  <2>2. FailureIsNotAbsence' /\ OneIdentity' /\ SignatureFitsValue'
    BY <1>1, <2>1 DEF FailureIsNotAbsence, OneIdentity, SignatureFitsValue, Known
  <2> QED BY <1>1, <1>2, <2>1, <2>2, Answers DEF IInv
<1> QED BY <1>1, <1>3, <1>4

LEMMA NextRequestStep == IInv /\ NextRequest => IInv'
<1> SUFFICES ASSUME IInv, NextRequest PROVE IInv'
  OBVIOUS
<1>1. /\ at' = "find" /\ request' \in Requests
      /\ record' = Nil /\ answer' = Nil /\ asked' = FALSE /\ profile' = Nil /\ reply' = NoReply
  BY DEF NextRequest
<1>2. TypeOK'
  BY <1>1, ProfileTypes DEF TypeOK, NoReply, Reply, Maybe
<1>3. Unanswered' /\ Identified' /\ LocalSkin' /\ ErrorsEnd'
  BY <1>1, MarkersAssumption DEF Unanswered, Identified, Known, LocalSkin, ErrorsEnd
<1> QED BY <1>1, <1>2, <1>3, NextNotYet DEF IInv

\* What a handler knows at each of its steps is so.
THEOREM Invariance == Spec => []IInv
<1>1. IInv /\ [Next]_vars => IInv'
  <2> SUFFICES ASSUME IInv, [Next]_vars PROVE IInv'
    OBVIOUS
  <2>1. CASE UNCHANGED vars
    BY <2>1 DEF vars, IInv, TypeOK, Unanswered, Identified, LocalSkin, ErrorsEnd, Known, Done,
                LocalSkinIsServed, FailureIsNotAbsence, OneIdentity, SignatureFitsValue
  <2> QED BY <2>1, FindSkinStep, FindCapeStep, AskMojangStep, RespondStep, ProfileHandlerStep,
             SignStep, NextRequestStep DEF Next
<1> QED BY InitIInv, <1>1, PTL DEF Spec

\* What is answered is a profile: the nil that getProfile may return is never
\* dereferenced on its way to the answer.
THEOREM TypeCorrect == Spec => []TypeOK
<1>1. IInv => TypeOK
  BY DEF IInv
<1> QED BY Invariance, <1>1, PTL

\* Mojang is neither asked about a skin that was uploaded here nor able to
\* spoil it.
THEOREM LocalSkinIsServedHolds == Spec => []LocalSkinIsServed
<1>1. IInv => LocalSkinIsServed
  BY DEF IInv
<1> QED BY Invariance, <1>1, PTL

\* A failure of the repository or of Mojang is not answered like an unknown
\* user.
THEOREM FailureIsNotAbsenceHolds == Spec => []FailureIsNotAbsence
<1>1. IInv => FailureIsNotAbsence
  BY DEF IInv
<1> QED BY Invariance, <1>1, PTL

\* No answer mixes two identities, and a known user keeps the own one.
THEOREM OneIdentityHolds == Spec => []OneIdentity
<1>1. IInv => OneIdentity
  BY DEF IInv
<1> QED BY Invariance, <1>1, PTL

\* A value is sent with the signature that belongs to it.
THEOREM SignatureFitsValueHolds == Spec => []SignatureFitsValue
<1>1. IInv => SignatureFitsValue
  BY DEF IInv
<1> QED BY Invariance, <1>1, PTL

=============================================================================
