---------------------------- MODULE Screen_proofs ----------------------------
(***************************************************************************)
(* Proofs about what is on the screen: the mouse and the window it drags,  *)
(* for any screen, window and movement, which need to know where things    *)
(* are and nothing of what has been drawn; that the screen shows the       *)
(* layers, where the intersection of rectangles is right; and the console, *)
(* for any number of rows and columns and any characters.                  *)
(***************************************************************************)
EXTENDS Layers, Console, NaturalsInduction, SequenceTheorems, WellFoundedInduction, TLAPS

-----------------------------------------------------------------------------
(* The first and the last place of a sequence that passes a test.          *)

Below == {pair \in Nat \X Nat : pair[1] < pair[2]}

\* The order of the natural numbers as a relation is well-founded.
LEMMA BelowIsWellFounded == IsWellFoundedOn(Below, Nat)
<1>1. Below = OpToRel(<, Nat)
  BY Zenon DEF Below, OpToRel
<1> QED
  BY <1>1, NatLessThanWellFounded

\* A set of numbers has a least one.
LEMMA LeastNumber ==
  ASSUME NEW S, S \subseteq Nat, S # {}
  PROVE  \E least \in S : \A n \in S : least <= n
<1>1. PICK least \in S : \A n \in S : ~(<<n, least>> \in Below)
  <2>1. S \in SUBSET Nat
    OBVIOUS
  <2> QED
    BY <2>1, BelowIsWellFounded, WFMin
<1>2. \A n \in S : ~(n < least)
  BY <1>1 DEF Below
<1> QED
  BY <1>2

\* Min picks the least number of a set that has any.
LEMMA MinIsLeast ==
  ASSUME NEW S, S \subseteq Nat, S # {}
  PROVE  Min(S) \in S /\ \A n \in S : Min(S) <= n
BY LeastNumber DEF Min

\* Max picks the greatest number of a set of numbers up to a bound.
LEMMA MaxIsGreatest ==
  ASSUME NEW bound \in Nat, NEW S, S \subseteq 1..bound, S # {}
  PROVE  Max(S) \in S /\ \A n \in S : n <= Max(S)
<1> DEFINE Gaps == {bound - n : n \in S}
<1>1. Gaps \subseteq Nat /\ Gaps # {}
  <2>1. \A n \in S : bound - n \in Nat
    OBVIOUS
  <2>2. PICK n \in S : TRUE
    OBVIOUS
  <2>3. bound - n \in Gaps
    BY <2>2
  <2> QED
    BY <2>1, <2>3
<1>2. PICK gap \in Gaps : \A g \in Gaps : gap <= g
  BY <1>1, LeastNumber
<1>3. PICK greatest \in S : gap = bound - greatest
  BY <1>2
<1>4. \A n \in S : n <= greatest
  BY <1>2, <1>3
<1> QED
  BY <1>3, <1>4 DEF Max

\* The first of some places of a sequence, or 0, is at most its length.
LEMMA FirstPlace ==
  ASSUME NEW bound \in Nat, NEW S, S \subseteq 1..bound
  PROVE  (IF S # {} THEN Min(S) ELSE 0) \in 0..bound
<1>1. CASE S = {}
  BY <1>1
<1>2. CASE S # {}
  <2>1. S \subseteq Nat
    OBVIOUS
  <2>2. Min(S) \in S
    BY <1>2, <2>1, MinIsLeast
  <2>3. Min(S) \in 1..bound
    BY <2>2
  <2> QED
    BY <1>2, <2>3
<1> QED
  BY <1>1, <1>2

-----------------------------------------------------------------------------
(* The operators of the model.                                             *)

\* UpDown makes a stack of layers of one.
LEMMA UpDownKeepsLayers ==
  ASSUME NEW stack \in Seq(Layer), NEW id \in Layer, NEW height \in Nat
  PROVE  UpDown(stack, id, height) \in Seq(Layer)
<1>1. PICK places : places = {i \in 1..Len(stack) : stack[i] = id}
  OBVIOUS
<1>2. PICK old : old = IF places # {} THEN Min(places) ELSE 0
  OBVIOUS
<1>3. old \in 0..Len(stack)
  BY <1>1, <1>2, FirstPlace
<1> DEFINE top == IF height > Len(stack) THEN Len(stack) ELSE height
           new == IF top = Len(stack) THEN top - 1 ELSE top
<1>4. ASSUME NEW s \in Seq(Layer), NEW place \in 1..(Len(s) + 1)
      PROVE  InsertAt(s, place, id) \in Seq(Layer)
  BY <1>4 DEF InsertAt
<1>5. ASSUME NEW s \in Seq(Layer), NEW place \in 1..Len(s)
      PROVE  RemoveAt(s, place) \in Seq(Layer) /\ Len(RemoveAt(s, place)) = Len(s) - 1
  <2>1. SubSeq(s, 1, place - 1) \in Seq(Layer) /\ Len(SubSeq(s, 1, place - 1)) = place - 1
    OBVIOUS
  <2>2. /\ SubSeq(s, place + 1, Len(s)) \in Seq(Layer)
        /\ Len(SubSeq(s, place + 1, Len(s))) = Len(s) - place
    OBVIOUS
  <2>3. \A a, b \in Seq(Layer) : a \o b \in Seq(Layer) /\ Len(a \o b) = Len(a) + Len(b)
    OBVIOUS
  <2>4. /\ RemoveAt(s, place) \in Seq(Layer)
        /\ Len(RemoveAt(s, place)) = (place - 1) + (Len(s) - place)
    BY <2>1, <2>2, <2>3 DEF RemoveAt
  <2> QED
    BY <2>4
<1>6. /\ top + 1 \in 1..(Len(stack) + 1)
      /\ old # 0 => new + 1 \in 1..Len(stack)
  BY <1>3
<1>7. UpDown(stack, id, height) =
        IF old = 0 THEN InsertAt(stack, top + 1, id)
        ELSE InsertAt(RemoveAt(stack, old), new + 1, id)
  BY <1>1, <1>2, <1>3 DEF UpDown, SelectInSeq
<1> HIDE DEF top, new
<1>8. CASE old = 0
  BY <1>4, <1>6, <1>7, <1>8
<1>9. CASE old # 0
  BY <1>3, <1>4, <1>5, <1>6, <1>7, <1>9
<1> QED
  BY <1>8, <1>9

Point == [x : Int, y : Int]

\* A report leaves the mouse on the screen, and tells how far it has moved.
LEMMA MouseStaysOnScreen ==
  ASSUME position \in Point, NEW displacement \in Displacements
  PROVE  /\ NewPosition(displacement).pos \in Pixels
         /\ NewPosition(displacement).diff =
              Minus(NewPosition(displacement).pos, position)
BY ScreenAssumption
   DEF NewPosition, Displacements, Pixels, Point, ElementMax, ElementMin, Plus, Minus, Vec,
       ScreenSize, Origin

\* A layer that is found is not the excluded one, and its window has the point.
LEMMA FoundHasPoint ==
  ASSUME layer_stack \in Seq(Layer), NEW p, NEW exclude_id,
         FindLayerByPosition(p, exclude_id) # 0
  PROVE  /\ FindLayerByPosition(p, exclude_id) \in Layer \ {exclude_id}
         /\ Within(p, WindowArea(FindLayerByPosition(p, exclude_id), pos))
<1>1. PICK S : S = {i \in 1..Len(layer_stack) :
                      layer_stack[i] # exclude_id /\ Within(p, WindowArea(layer_stack[i], pos))}
  OBVIOUS
<1>2. FindLayerByPosition(p, exclude_id) =
        IF (IF S # {} THEN Max(S) ELSE 0) = 0 THEN 0
        ELSE layer_stack[IF S # {} THEN Max(S) ELSE 0]
  BY <1>1 DEF FindLayerByPosition, SelectLastInSeq
<1>3. S # {}
  BY <1>2
<1>4. Max(S) \in S
  BY <1>1, <1>3, MaxIsGreatest
<1>5. FindLayerByPosition(p, exclude_id) = layer_stack[Max(S)]
  BY <1>1, <1>2, <1>3, <1>4
<1> QED
  BY <1>1, <1>4, <1>5

-----------------------------------------------------------------------------
(* The invariant.                                                          *)

\* Nothing is dragged before the event loop; from then on the mouse is on the
\* screen, where its layer is, and a window that is dragged is under it. Only one
\* window can be dragged.
DragInv ==
  /\ start \in {"layers", "window", "mouse", "draw", "done"}
  /\ layer_stack \in Seq(Layer)
  /\ pos \in [Layer -> Point]
  /\ position \in Point
  /\ previous_pressed \in BOOLEAN
  /\ drag_layer_id \in {0, MainLayer}
  /\ start \in {"draw", "done"} => position \in Pixels /\ pos[MouseLayer] = position
  /\ start # "done" => drag_layer_id = 0 /\ previous_pressed = FALSE
  /\ DragHoldsWindow

\* The layers are as they are named: their numbers differ.
LEMMA LayersDiffer == Layer = 1..4 /\ MainLayer = 3 /\ MouseLayer = 4
BY DEF Layer, Desktop, ConsoleLayer, MainLayer, MouseLayer

\* SelectLastInSeq gives a place in the sequence, or 0.
LEMMA TopmostIsNumber == Topmost \in Nat
BY SMT DEF Topmost

\* It holds when the kernel starts.
LEMMA InitDragInv == Init => DragInv
<1> SUFFICES ASSUME Init PROVE DragInv
  OBVIOUS
<1>1. Origin \in Point
  BY DEF Origin, Vec, Point
<1>2. pos \in [Layer -> Point] /\ position \in Point /\ layer_stack \in Seq(Layer)
  BY <1>1 DEF Init
<1>3. start = "layers" /\ drag_layer_id = 0 /\ previous_pressed = FALSE
  BY DEF Init
<1> QED
  BY <1>2, <1>3 DEF DragInv, DragHoldsWindow

\* The start-up keeps it: the stack is filled and the mouse put in its place.
LEMMA StartKeepsDragInv ==
  DragInv /\ (InitializeLayer \/ InitializeMainWindow \/ InitializeMouse) => DragInv'
<1> SUFFICES ASSUME DragInv, InitializeLayer \/ InitializeMainWindow \/ InitializeMouse
             PROVE  DragInv'
  OBVIOUS
<1>1. CASE InitializeLayer
  <2>1. layer_stack' \in Seq(Layer)
    BY <1>1, UpDownKeepsLayers DEF InitializeLayer, DragInv, Layer
  <2> QED
    BY <1>1, <2>1 DEF InitializeLayer, DragInv, DragHoldsWindow, mouse
<1>2. CASE InitializeMainWindow
  <2>1. layer_stack' \in Seq(Layer)
    BY <1>2, UpDownKeepsLayers, TopmostIsNumber DEF InitializeMainWindow, DragInv, Layer
  <2>2. pos' \in [Layer -> Point]
    BY <1>2, ScreenAssumption DEF InitializeMainWindow, DragInv, Layer, Vec, Point
  <2> QED
    BY <1>2, <2>1, <2>2 DEF InitializeMainWindow, DragInv, DragHoldsWindow, mouse
<1>3. CASE InitializeMouse
  <2>1. layer_stack' \in Seq(Layer)
    BY <1>3, UpDownKeepsLayers, TopmostIsNumber DEF InitializeMouse, DragInv, Layer
  <2>2. position' = Vec(MouseX, MouseY) /\ pos' = [pos EXCEPT ![MouseLayer] = position']
    BY <1>3 DEF InitializeMouse
  <2>3. position' \in Point /\ position' \in Pixels
    BY <2>2, ScreenAssumption DEF Vec, Point, Pixels
  <2>4. pos' \in [Layer -> Point] /\ pos'[MouseLayer] = position'
    BY <2>2, <2>3, LayersDiffer DEF DragInv
  <2> QED
    BY <1>3, <2>1, <2>3, <2>4 DEF InitializeMouse, DragInv, DragHoldsWindow
<1> QED
  BY <1>1, <1>2, <1>3

\* What a report does, but for what is drawn: the mouse moves, and with it a window
\* that is dragged already.
LEMMA ReportMoves ==
  ASSUME DragInv, NEW pressed \in BOOLEAN, NEW displacement \in Displacements,
         OnInterrupt(pressed, displacement)
  PROVE  LET moves == previous_pressed /\ pressed /\ drag_layer_id = MainLayer IN
         /\ start = "done" /\ start' = "done" /\ layer_stack' = layer_stack
         /\ previous_pressed' = pressed
         /\ position' \in Pixels
         /\ pos' \in [Layer -> Point] /\ pos'[MouseLayer] = position'
         /\ ~moves => pos'[MainLayer] = pos[MainLayer]
         /\ moves => pos'[MainLayer] = Plus(pos[MainLayer], Minus(position', position))
         /\ drag_layer_id' = Dragged(pressed, position')
<1>1. PICK new : new = NewPosition(displacement)
  OBVIOUS
<1>2. new.pos \in Pixels /\ new.diff = Minus(new.pos, position)
  BY <1>1, MouseStaysOnScreen DEF DragInv
<1>3. PICK at : at = [pos EXCEPT ![MouseLayer] = new.pos]
  OBVIOUS
<1>4. Pixels \subseteq Point
  BY ScreenAssumption DEF Pixels, Point
<1>5. /\ at \in [Layer -> Point] /\ at[MouseLayer] = new.pos
      /\ at[MainLayer] = pos[MainLayer]
  BY <1>2, <1>3, <1>4, LayersDiffer DEF DragInv
<1>6. position' = new.pos
  BY <1>1 DEF OnInterrupt
<1>7. pos' = IF previous_pressed /\ pressed /\ drag_layer_id > 0
               THEN [at EXCEPT ![drag_layer_id] = Plus(pos[drag_layer_id], new.diff)] ELSE at
  BY <1>1, <1>3 DEF OnInterrupt
<1>8. drag_layer_id > 0 <=> drag_layer_id = MainLayer
  BY LayersDiffer DEF DragInv
<1>9. Plus(pos[MainLayer], new.diff) \in Point
  <2>1. pos[MainLayer] \in Point /\ new.pos \in Point /\ position \in Point
    BY <1>2, <1>4, LayersDiffer DEF DragInv
  <2>2. Minus(new.pos, position) \in Point
    BY <2>1 DEF Minus, Vec, Point
  <2> QED
    BY <1>2, <2>1, <2>2 DEF Plus, Vec, Point
<1>10. /\ start = "done" /\ start' = "done" /\ layer_stack' = layer_stack
       /\ previous_pressed' = pressed
       /\ drag_layer_id' = Dragged(pressed, position')
  BY <1>1, <1>6 DEF OnInterrupt
<1>11. CASE previous_pressed /\ pressed /\ drag_layer_id = MainLayer
  BY <1>2, <1>5, <1>6, <1>7, <1>8, <1>9, <1>10, <1>11, LayersDiffer
<1>12. CASE ~(previous_pressed /\ pressed /\ drag_layer_id = MainLayer)
  BY <1>2, <1>5, <1>6, <1>7, <1>8, <1>10, <1>12
<1> QED
  BY <1>11, <1>12

\* A report keeps the invariant. A drag begins at a window that is found under the
\* mouse, while none moves; from then on window and mouse move by the same distance.
LEMMA ReportKeepsDragInv ==
  ASSUME DragInv, NEW pressed \in BOOLEAN, NEW displacement \in Displacements,
         OnInterrupt(pressed, displacement)
  PROVE  DragInv'
<1> DEFINE moves == previous_pressed /\ pressed /\ drag_layer_id = MainLayer
<1>1. /\ start = "done" /\ start' = "done" /\ layer_stack' = layer_stack
      /\ previous_pressed' = pressed
      /\ position' \in Pixels
      /\ pos' \in [Layer -> Point] /\ pos'[MouseLayer] = position'
      /\ ~moves => pos'[MainLayer] = pos[MainLayer]
      /\ moves => pos'[MainLayer] = Plus(pos[MainLayer], Minus(position', position))
      /\ drag_layer_id' = Dragged(pressed, position')
  BY ReportMoves
<1>2. position' \in Point
  BY <1>1, ScreenAssumption DEF Pixels, Point
<1>3. drag_layer_id' \in {0, MainLayer} /\ (drag_layer_id' # 0 => DragHoldsWindow')
  <2>1. CASE ~previous_pressed /\ pressed
    <3>1. drag_layer_id = 0
      BY <2>1, LayersDiffer DEF DragInv, DragHoldsWindow
    <3>2. PICK found : found = FindLayerByPosition(position', MouseLayer)
      OBVIOUS
    <3>3. drag_layer_id' = IF found # 0 /\ IsDraggable(found) THEN found ELSE 0
      BY <1>1, <2>1, <3>1, <3>2 DEF Dragged
    <3>4. CASE found # 0 /\ IsDraggable(found)
      <4>1. found = MainLayer /\ drag_layer_id' = MainLayer
        BY <3>3, <3>4 DEF IsDraggable
      <4>2. Within(position', WindowArea(MainLayer, pos))
        BY <3>2, <3>4, <4>1, FoundHasPoint DEF DragInv
      <4>3. Within(position', WindowArea(MainLayer, pos'))
        BY <1>1, <2>1, <4>2 DEF WindowArea
      <4> QED
        BY <1>1, <2>1, <4>1, <4>3 DEF DragHoldsWindow, IsDraggable
    <3> QED
      BY <3>3, <3>4
  <2>2. CASE previous_pressed /\ ~pressed
    BY <1>1, <2>2 DEF Dragged
  <2>3. CASE previous_pressed = pressed
    <3>1. drag_layer_id' = drag_layer_id /\ drag_layer_id \in {0, MainLayer}
      BY <1>1, <2>3 DEF Dragged, DragInv
    <3>2. CASE drag_layer_id = MainLayer
      <4>1. moves /\ Within(position, WindowArea(MainLayer, pos))
        BY <2>3, <3>2, LayersDiffer DEF DragInv, DragHoldsWindow
      <4>2. pos'[MainLayer] = Plus(pos[MainLayer], Minus(position', position))
        BY <1>1, <4>1
      <4>3. pos[MainLayer] \in Point /\ position \in Point
        BY LayersDiffer DEF DragInv
      <4>4. Size(MainLayer) = Vec(MainWidth, MainHeight)
        BY DEF Size
      <4>5. Within(position', WindowArea(MainLayer, pos'))
        BY <1>2, <4>1, <4>2, <4>3, <4>4, ScreenAssumption
           DEF Within, WindowArea, Rect, Plus, Minus, Vec, Point
      <4> QED
        BY <1>1, <3>1, <3>2, <4>1, <4>5 DEF DragHoldsWindow, IsDraggable
    <3> QED
      BY <3>1, <3>2
  <2> QED
    BY <2>1, <2>2, <2>3 DEF DragInv
<1> QED
  BY <1>1, <1>2, <1>3 DEF DragInv, DragHoldsWindow

\* Every step keeps the invariant; what is only drawn does not touch it.
LEMMA NextDragInv == DragInv /\ [Next]_vars => DragInv'
<1> SUFFICES ASSUME DragInv, [Next]_vars PROVE DragInv'
  OBVIOUS
<1>1. CASE InitializeLayer \/ InitializeMainWindow \/ InitializeMouse
  BY <1>1, StartKeepsDragInv
<1>2. CASE DrawScreen
  BY <1>2 DEF DrawScreen, DragInv, DragHoldsWindow, mouse
<1>3. CASE CountUp
  BY <1>3 DEF CountUp, DragInv, DragHoldsWindow, mouse
<1>4. CASE PutString
  BY <1>4 DEF PutString, DragInv, DragHoldsWindow, mouse
<1>5. CASE \E pressed \in BOOLEAN, displacement \in Displacements :
            OnInterrupt(pressed, displacement)
  BY <1>5, ReportKeepsDragInv
<1>6. CASE UNCHANGED vars
  BY <1>6 DEF vars, DragInv, DragHoldsWindow, mouse
<1> QED
  BY <1>1, <1>2, <1>3, <1>4, <1>5, <1>6 DEF Next

\* The invariant holds throughout.
LEMMA Invariance == Spec => []DragInv
BY InitDragInv, NextDragInv, PTL DEF Spec

-----------------------------------------------------------------------------
(* The results.                                                            *)

\* However the mouse is moved and its button pressed, on any screen: while a window
\* is dragged the button is down and the mouse is on the window (Mouse::OnInterrupt).
THEOREM WindowIsHeld == Spec => []DragHoldsWindow
BY Invariance, PTL DEF DragInv

\* A window moves only in a drag that began with an earlier report, and by as much
\* as the mouse itself, also where the edge of the screen stops the mouse.
THEOREM WindowMovesWithMouse == Spec => WindowsMoveWithMouse
<1>1. ASSUME DragInv, [Next]_vars, start = "done", pos'[MainLayer] # pos[MainLayer]
      PROVE  /\ drag_layer_id = MainLayer
             /\ Minus(pos'[MainLayer], pos[MainLayer]) = Minus(position', position)
  <2>1. PICK pressed \in BOOLEAN, displacement \in Displacements :
               OnInterrupt(pressed, displacement)
    BY <1>1 DEF Next, InitializeLayer, InitializeMainWindow, InitializeMouse, DrawScreen,
                CountUp, PutString, vars
  <2> DEFINE moves == previous_pressed /\ pressed /\ drag_layer_id = MainLayer
  <2>2. /\ ~moves => pos'[MainLayer] = pos[MainLayer]
        /\ moves => pos'[MainLayer] = Plus(pos[MainLayer], Minus(position', position))
        /\ position' \in Pixels
    BY <1>1, <2>1, ReportMoves
  <2>3. drag_layer_id = MainLayer
    BY <1>1, <2>2
  <2>4. pos'[MainLayer] = Plus(pos[MainLayer], Minus(position', position))
    BY <1>1, <2>2
  <2>5. pos[MainLayer] \in Point /\ position \in Point /\ position' \in Point
    BY <1>1, <2>2, LayersDiffer, ScreenAssumption DEF DragInv, Pixels, Point
  <2>6. PICK distance : distance = Minus(position', position)
    OBVIOUS
  <2>7. distance \in Point /\ distance = Vec(distance.x, distance.y)
    BY <2>5, <2>6 DEF Minus, Vec, Point
  <2>8. Minus(Plus(pos[MainLayer], distance), pos[MainLayer]) = Vec(distance.x, distance.y)
    BY <2>5, <2>7 DEF Plus, Minus, Vec, Point
  <2> QED
    BY <2>3, <2>4, <2>6, <2>7, <2>8
<1> QED
  BY <1>1, Invariance, PTL DEF Spec, WindowsMoveWithMouse

\* In the event loop the mouse is always on the screen, and its layer where it is.
THEOREM MouseIsOnScreen ==
  Spec => [](start = "done" => position \in Pixels /\ pos[MouseLayer] = position)
<1>1. DragInv => (start = "done" => position \in Pixels /\ pos[MouseLayer] = position)
  BY DEF DragInv
<1> QED
  BY <1>1, Invariance, PTL

-----------------------------------------------------------------------------
(* What the screen shows.                                                  *)

Rectangle == [pos : Point, size : Point]

\* A pixel of an intersection is one of both rectangles.
LEMMA IntersectionIsWithin ==
  ASSUME NEW a \in Rectangle, NEW b \in Rectangle,
         NEW p \in Point, Within(p, Intersection(a, b))
  PROVE  Within(p, a) /\ Within(p, b)
BY DEF Rectangle, Within, Intersection, Point, Plus, Minus, Vec, ElementMax, ElementMin, Rect, Origin

\* A pixel of both is one of the intersection, unless the comparison of an x with a y
\* fails.
LEMMA WithinIntersection ==
  ASSUME NEW a \in Rectangle, NEW b \in Rectangle,
         NEW p \in Point, Within(p, a), Within(p, b), b.pos.x + b.size.x >= a.pos.y
  PROVE  Within(p, Intersection(a, b))
BY DEF Rectangle, Within, Intersection, Point, Plus, Minus, Vec, ElementMax, ElementMin, Rect, Origin

\* An intersection is a rectangle again.
LEMMA IntersectionIsRectangle ==
  ASSUME NEW a \in Rectangle, NEW b \in Rectangle
  PROVE  Intersection(a, b) \in Rectangle
BY DEF Rectangle, Intersection, Point, Plus, Minus, Vec, ElementMax, ElementMin, Rect, Origin

\* The pixels are points, and those of the screen.
LEMMA PixelsAreOnScreen ==
  /\ ScreenArea \in Rectangle /\ ScreenSize \in Point /\ Origin \in Point
  /\ Rect(Origin, ScreenSize) = ScreenArea
  /\ \A p \in Pixels : p \in Point /\ Within(p, ScreenArea) /\ p = Vec(p.x, p.y)
BY ScreenAssumption
   DEF Rectangle, Point, Pixels, ScreenArea, ScreenSize, Within, Rect, Vec, Origin

\* A copy shows the pixels that are on the screen, in the window and visible.
ShowsCopy(dst, src, place, size, visible, p) ==
  Copy(dst, visible.pos, src, size, Rect(Minus(visible.pos, place), visible.size))[p] =
    IF Within(p, Intersection(Intersection(ScreenArea, Rect(place, size)), visible))
      THEN src[Minus(p, place)] ELSE dst[p]

\* Copy of the visible part of a window that is at a place.
LEMMA CopyShows ==
  ASSUME NEW dst, NEW src, NEW place \in Point, NEW size \in Point, NEW visible \in Rectangle,
         NEW p \in Pixels
  PROVE  ShowsCopy(dst, src, place, size, visible, p)
<1>1. visible.pos \in Point /\ visible.size \in Point /\ Rect(visible.pos, visible.size) = visible
  BY DEF Rectangle, Rect
<1>2. Minus(visible.pos, Minus(visible.pos, place)) = place
  BY <1>1 DEF Minus, Vec, Point
<1>3. /\ Rect(Minus(visible.pos, place), visible.size).pos = Minus(visible.pos, place)
      /\ Rect(Minus(visible.pos, place), visible.size).size = visible.size
  BY DEF Rect
<1> QED
  BY <1>1, <1>2, <1>3 DEF Copy, ShowsCopy

\* A window with a pixel has a color there.
LEMMA WindowHasColor ==
  ASSUME NEW id \in Layer, NEW at \in [Layer -> Point], NEW c, NEW p \in Pixels,
         Within(p, WindowArea(id, at))
  PROVE  Window(id, c)[Minus(p, at[id])] = At(id, Minus(p, at[id]), c)
<1>1. at[id] \in Point /\ Size(id) \in Point /\ p \in Point
  BY PixelsAreOnScreen, ScreenAssumption DEF Size, Point, Vec
<1>2. Minus(p, at[id]) \in [x: 0..(Size(id).x - 1), y: 0..(Size(id).y - 1)]
  BY <1>1 DEF Minus, Vec, Point, Within, WindowArea, Rect
<1> QED
  BY <1>2 DEF Window

\* A window without transparent pixels, drawn in an area.
LEMMA OpaqueShows ==
  ASSUME NEW id \in Layer \ {MouseLayer}, NEW at \in [Layer -> Point], NEW area \in Rectangle,
         NEW before, NEW c, NEW p \in Pixels,
         Within(p, area) /\ Within(p, WindowArea(id, at)) =>
           IF id = MainLayer THEN p.y <= p.x + 1
           ELSE at[id] = Origin /\ ScreenHeight <= ScreenWidth + 1
  PROVE  DrawTo(before, id, area, at, c)[p] =
           IF Within(p, area) /\ Within(p, WindowArea(id, at)) THEN At(id, Minus(p, at[id]), c)
           ELSE before[p]
<1>1. at[id] \in Point /\ Size(id) \in Point /\ p \in Point /\ area.pos \in Point
  BY PixelsAreOnScreen, ScreenAssumption DEF Size, Point, Vec, Rectangle
<1>2. PICK whole : whole = WindowArea(id, at)
  OBVIOUS
<1>3. whole = Rect(at[id], Size(id)) /\ whole \in Rectangle
  BY <1>1, <1>2 DEF WindowArea, Rect, Rectangle
<1>4. PICK visible \in Rectangle : visible = Intersection(area, whole)
  BY <1>3, IntersectionIsRectangle
<1>5. PICK shown \in Rectangle : shown = Intersection(ScreenArea, whole)
  BY <1>3, IntersectionIsRectangle, PixelsAreOnScreen
<1>6. ~Transparent(id)
  BY DEF Transparent
<1>7. DrawTo(before, id, area, at, c) =
        Copy(before, visible.pos, Window(id, c), Size(id), Rect(Minus(visible.pos, at[id]), visible.size))
  BY <1>2, <1>4, <1>6 DEF DrawTo
<1>8. DrawTo(before, id, area, at, c)[p] =
        IF Within(p, Intersection(shown, visible)) THEN Window(id, c)[Minus(p, at[id])] ELSE before[p]
  <2>1. PICK place \in Point, size \in Point : place = at[id] /\ size = Size(id)
    BY <1>1
  <2>4. PICK src : src = Window(id, c)
    OBVIOUS
  <2>2. ShowsCopy(before, src, place, size, visible, p)
    BY CopyShows
  <2>3. shown = Intersection(ScreenArea, Rect(place, size))
    BY <1>3, <1>5, <2>1
  <2> QED
    BY <1>7, <2>1, <2>2, <2>3, <2>4 DEF ShowsCopy
<1>9. Within(p, Intersection(shown, visible)) => Within(p, area) /\ Within(p, whole)
  BY <1>1, <1>3, <1>4, IntersectionIsWithin
<1>10. ASSUME Within(p, area), Within(p, whole)
       PROVE  Within(p, Intersection(shown, visible))
  <2>1. whole.pos.x + whole.size.x >= area.pos.y
    <3>1. /\ p.x < whole.pos.x + whole.size.x /\ area.pos.y <= p.y
          /\ whole.pos \in Point /\ whole.size \in Point
      BY <1>3, <1>10 DEF Within, Rectangle
    <3>2. CASE id = MainLayer
      BY <1>1, <1>2, <1>10, <3>1, <3>2 DEF Point
    <3>3. CASE id # MainLayer
      <4>1. whole = ScreenArea /\ ScreenHeight <= ScreenWidth + 1
        BY <1>2, <1>3, <1>10, <3>3, PixelsAreOnScreen DEF Size
      <4> QED
        BY <1>1, <3>1, <4>1, ScreenAssumption DEF ScreenArea, ScreenSize, Rect, Vec, Origin, Pixels, Point
    <3> QED
      BY <3>2, <3>3
  <2>2. Within(p, visible)
    BY <1>1, <1>3, <1>4, <1>10, <2>1, WithinIntersection
  <2>3. Within(p, shown)
    <3>1. /\ ScreenArea.pos.y = 0 /\ p.x >= 0 /\ p.x < whole.pos.x + whole.size.x
      BY <1>10 DEF ScreenArea, Rect, Vec, Origin, Pixels, Within
    <3>2. whole.pos.x + whole.size.x >= ScreenArea.pos.y
      BY <1>1, <1>3, <3>1 DEF Rectangle, Point
    <3> QED
      BY <1>1, <1>3, <1>5, <1>10, <3>2, PixelsAreOnScreen, WithinIntersection
  <2>4. visible.pos.x + visible.size.x >= shown.pos.y
    <3>1. /\ p.x < visible.pos.x + visible.size.x /\ shown.pos.y <= p.y
          /\ visible.pos \in Point /\ visible.size \in Point /\ shown.pos \in Point
      BY <2>2, <2>3 DEF Within, Rectangle
    <3>2. CASE id = MainLayer
      BY <1>1, <1>2, <1>10, <3>1, <3>2 DEF Point
    <3>3. CASE id # MainLayer
      <4>1. whole = ScreenArea
        BY <1>2, <1>3, <1>10, <3>3, PixelsAreOnScreen DEF Size
      <4>2. shown.pos.y = 0
        BY <1>5, <4>1, ScreenAssumption
        DEF Intersection, ScreenArea, ScreenSize, Rect, Vec, Origin, Plus, Minus, ElementMax
      <4>3. p.x >= 0
        BY DEF Pixels
      <4> QED
        BY <1>1, <3>1, <4>2, <4>3 DEF Point
    <3> QED
      BY <3>2, <3>3
  <2> QED
    BY <1>1, <2>2, <2>3, <2>4, WithinIntersection
<1>11. Within(p, whole) => Window(id, c)[Minus(p, at[id])] = At(id, Minus(p, at[id]), c)
  BY <1>2, WindowHasColor
<1> QED
  BY <1>2, <1>8, <1>9, <1>10, <1>11

CursorAt(at, p) == Within(p, WindowArea(MouseLayer, at)) /\ p.x = at[MouseLayer].x

MainAt(at, p) == Within(p, WindowArea(MainLayer, at))

\* The colors by themselves.
Cursor == <<"cursor", 0>>
Main(c) == <<"main_window", c>>
Ground == <<"desktop", 0>>

\* The cursor is drawn, whatever the area.
LEMMA CursorShows ==
  ASSUME NEW at \in [Layer -> Point], NEW area, NEW before, NEW c, NEW p \in Pixels
  PROVE  DrawTo(before, MouseLayer, area, at, c)[p] =
           IF CursorAt(at, p) THEN Cursor ELSE before[p]
<1>1. MouseLayer \in Layer /\ Transparent(MouseLayer) /\ MouseLayer # MainLayer
  BY LayersDiffer DEF Transparent
<1>2. PICK inside : inside = WindowArea(MouseLayer, at)
  OBVIOUS
<1>3. DrawTo(before, MouseLayer, area, at, c)[p] =
        IF /\ Within(p, inside)
           /\ Window(MouseLayer, c)[Minus(p, at[MouseLayer])][1] # "transparent"
          THEN Window(MouseLayer, c)[Minus(p, at[MouseLayer])] ELSE before[p]
  BY <1>1, <1>2 DEF DrawTo
<1>4. CASE ~Within(p, inside)
  BY <1>2, <1>3, <1>4 DEF CursorAt
<1>5. CASE Within(p, inside)
  <2>1. Window(MouseLayer, c)[Minus(p, at[MouseLayer])] = At(MouseLayer, Minus(p, at[MouseLayer]), c)
    BY <1>1, <1>2, <1>5, WindowHasColor
  <2>2. Minus(p, at[MouseLayer]).x = p.x - at[MouseLayer].x /\ p.x \in Int /\ at[MouseLayer].x \in Int
    BY <1>1, PixelsAreOnScreen DEF Minus, Vec, Point
  <2>3. At(MouseLayer, Minus(p, at[MouseLayer]), c) =
          IF p.x = at[MouseLayer].x THEN <<"cursor", 0>> ELSE <<"transparent", 0>>
    BY <1>1, <2>2 DEF At
  <2>4. <<"cursor", 0>>[1] # "transparent" /\ <<"transparent", 0>>[1] = "transparent"
    OBVIOUS
  <2> QED
    BY <1>2, <1>3, <1>5, <2>1, <2>3, <2>4 DEF CursorAt, Cursor
<1> QED
  BY <1>4, <1>5

\* Where the windows are that never move.
Steady(at) == at \in [Layer -> Point] /\ at[Desktop] = Origin /\ at[ConsoleLayer] = Origin

\* main_window is where the comparison of an x with a y does not matter.
ClearOfCorner(at) == \A p \in Pixels : MainAt(at, p) => p.y <= p.x + 1

\* The desktop and the console's layer fill an area.
LEMMA GroundShows ==
  ASSUME ScreenHeight <= ScreenWidth + 1, NEW id \in {Desktop, ConsoleLayer},
         NEW at, Steady(at), NEW area \in Rectangle, NEW before, NEW c, NEW p \in Pixels
  PROVE  DrawTo(before, id, area, at, c)[p] = IF Within(p, area) THEN Ground ELSE before[p]
<1>1. id \in Layer \ {MouseLayer} /\ id # MainLayer /\ at \in [Layer -> Point] /\ at[id] = Origin
  BY DEF Steady, Layer, Desktop, ConsoleLayer, MainLayer, MouseLayer
<1>2. WindowArea(id, at) = ScreenArea
  BY <1>1 DEF WindowArea, Size, ScreenArea
<1>3. Within(p, WindowArea(id, at))
  BY <1>2, PixelsAreOnScreen
<1>4. At(id, Minus(p, at[id]), c) = Ground
  BY <1>1 DEF At, Ground
<1> QED
  BY <1>1, <1>3, <1>4, OpaqueShows

\* main_window is drawn where it is in the area.
LEMMA MainShows ==
  ASSUME NEW at, Steady(at), ClearOfCorner(at), NEW area \in Rectangle, NEW before, NEW c,
         NEW p \in Pixels
  PROVE  DrawTo(before, MainLayer, area, at, c)[p] =
           IF Within(p, area) /\ MainAt(at, p) THEN Main(c) ELSE before[p]
<1>1. MainLayer \in Layer \ {MouseLayer} /\ at \in [Layer -> Point]
  BY LayersDiffer DEF Steady
<1>2. Within(p, WindowArea(MainLayer, at)) => p.y <= p.x + 1
  BY DEF ClearOfCorner, MainAt
<1>3. At(MainLayer, Minus(p, at[MainLayer]), c) = Main(c)
  BY DEF At, Main
<1> QED
  BY <1>1, <1>2, <1>3, OpaqueShows DEF MainAt

\* f has what the back buffer is after each of the layers.
DrawnAs(f, buffers, layers, area, at, c) ==
  /\ f[0] = buffers.back
  /\ \A n \in 1..Len(layers) : f[n] = DrawTo(f[n - 1], layers[n], area, at, c)
  /\ DrawLayers(buffers, layers, area, at, c) =
       [back |-> f[Len(layers)],
        screen |-> Copy(buffers.screen, area.pos, f[Len(layers)], ScreenSize, area)]

\* There is such a sequence of buffers.
LEMMA LayerByLayer ==
  ASSUME NEW buffers, NEW layers \in Seq(Layer), Len(layers) \in 0..4, NEW area, NEW at, NEW c
  PROVE  \E f : DrawnAs(f, buffers, layers, area, at, c)
<1> DEFINE IsDrawing(f) ==
      f = [n \in 0..Len(layers) |->
             IF n = 0 THEN buffers.back ELSE DrawTo(f[n - 1], layers[n], area, at, c)]
<1>1. \E f : IsDrawing(f)
  <2>1. PICK s1 : s1 = DrawTo(buffers.back, layers[1], area, at, c)
    OBVIOUS
  <2>2. PICK s2 : s2 = DrawTo(s1, layers[2], area, at, c)
    OBVIOUS
  <2>3. PICK s3 : s3 = DrawTo(s2, layers[3], area, at, c)
    OBVIOUS
  <2>4. PICK s4 : s4 = DrawTo(s3, layers[4], area, at, c)
    OBVIOUS
  <2>5. PICK f : f = [n \in 0..Len(layers) |->
                        CASE n = 0 -> buffers.back [] n = 1 -> s1 [] n = 2 -> s2 [] n = 3 -> s3
                          [] OTHER -> s4]
    OBVIOUS
  <2>6. PICK g : g = [n \in 0..Len(layers) |->
                        IF n = 0 THEN buffers.back ELSE DrawTo(f[n - 1], layers[n], area, at, c)]
    OBVIOUS
  <2>7. ASSUME NEW n \in 0..Len(layers) PROVE f[n] = g[n]
    <3>1. n \in {0, 1, 2, 3, 4}
      <4>1. PICK last \in 0..4 : last = Len(layers)
        OBVIOUS
      <4>2. n \in 0..last
        BY <4>1
      <4> QED
        BY ONLY <4>2, last \in 0..4
    <3>2. n # 0 => n - 1 \in 0..Len(layers)
      OBVIOUS
    <3>3. g[n] = IF n = 0 THEN buffers.back ELSE DrawTo(f[n - 1], layers[n], area, at, c)
      BY <2>6
    <3>4. CASE n = 0
      BY <2>5, <3>3, <3>4
    <3>5. CASE n = 1
      <4>1. f[0] = buffers.back /\ f[1] = s1
        BY <2>5, <3>2, <3>5
      <4> QED
        BY <2>1, <3>3, <3>5, <4>1
    <3>6. CASE n = 2
      <4>1. f[1] = s1 /\ f[2] = s2
        BY <2>5, <3>2, <3>6
      <4> QED
        BY <2>2, <3>3, <3>6, <4>1
    <3>7. CASE n = 3
      <4>1. f[2] = s2 /\ f[3] = s3
        BY <2>5, <3>2, <3>7
      <4> QED
        BY <2>3, <3>3, <3>7, <4>1
    <3>8. CASE n = 4
      <4>1. f[3] = s3 /\ f[4] = s4
        BY <2>5, <3>2, <3>8
      <4> QED
        BY <2>4, <3>3, <3>8, <4>1
    <3> QED
      BY <3>1, <3>4, <3>5, <3>6, <3>7, <3>8
  <2>8. f = g
    BY <2>5, <2>6, <2>7
  <2> QED
    BY <2>6, <2>8
<1>2. PICK f : /\ IsDrawing(f)
               /\ DrawLayers(buffers, layers, area, at, c) =
                    [back |-> f[Len(layers)],
                     screen |-> Copy(buffers.screen, area.pos, f[Len(layers)], ScreenSize, area)]
  BY <1>1 DEF DrawLayers
<1>3. f[0] = buffers.back
  BY <1>2
<1>4. ASSUME NEW n \in 1..Len(layers) PROVE f[n] = DrawTo(f[n - 1], layers[n], area, at, c)
  <2>1. n \in 0..Len(layers) /\ n # 0
    OBVIOUS
  <2> QED
    BY <1>2, <2>1
<1> QED
  BY <1>2, <1>3, <1>4 DEF DrawnAs

\* The layers, all shown.
Stack == <<Desktop, ConsoleLayer, MainLayer, MouseLayer>>

\* It is a stack of four layers.
LEMMA StackOfLayers == Stack \in Seq(Layer) /\ Len(Stack) = 4
BY DEF Stack, Layer

\* The upper part of a stack.
LEMMA UpperLayers ==
  ASSUME NEW s \in Seq(Layer), NEW k \in 1..Len(s)
  PROVE  /\ SubSeq(s, k, Len(s)) \in Seq(Layer) /\ Len(SubSeq(s, k, Len(s))) = Len(s) - k + 1
         /\ \A n \in 1..(Len(s) - k + 1) : SubSeq(s, k, Len(s))[n] = s[k + n - 1]
<1>1. SubSeq(s, k, Len(s)) \in Seq(Layer) /\ Len(SubSeq(s, k, Len(s))) = Len(s) - k + 1
  OBVIOUS
<1>2. ASSUME NEW n \in 1..(Len(s) - k + 1) PROVE SubSeq(s, k, Len(s))[n] = s[k + n - 1]
  OBVIOUS
<1> QED
  BY <1>1, <1>2

\* The color of a pixel on the back buffer after the layers from the k-th on have been
\* drawn there in an area.
Repainted(k, area, at, c, p, color) ==
  IF CursorAt(at, p) THEN Cursor
  ELSE IF k <= 3 /\ Within(p, area) /\ MainAt(at, p) THEN Main(c)
  ELSE IF k <= 2 /\ Within(p, area) THEN Ground
  ELSE color

\* The layers from the k-th on, drawn one over the other.
LEMMA BackShows ==
  ASSUME ScreenHeight <= ScreenWidth + 1, NEW at, Steady(at), ClearOfCorner(at),
         NEW area \in Rectangle, NEW buffers, NEW c, NEW p \in Pixels, NEW k \in 1..4
  PROVE  DrawLayers(buffers, SubSeq(Stack, k, 4), area, at, c).back[p] =
           Repainted(k, area, at, c, p, buffers.back[p])
<1>1. PICK layers : layers = SubSeq(Stack, k, 4)
  OBVIOUS
<1>2. Stack \in Seq(Layer) /\ Len(Stack) = 4
  BY StackOfLayers
<1>3. /\ layers \in Seq(Layer) /\ Len(layers) = 5 - k
      /\ \A n \in 1..(5 - k) : layers[n] = Stack[k + n - 1]
  <2>1. PICK s \in Seq(Layer) : s = Stack /\ Len(s) = 4
    BY <1>2
  <2>2. /\ SubSeq(s, k, Len(s)) \in Seq(Layer) /\ Len(SubSeq(s, k, Len(s))) = Len(s) - k + 1
        /\ \A n \in 1..(Len(s) - k + 1) : SubSeq(s, k, Len(s))[n] = s[k + n - 1]
    <3>1. k \in 1..Len(s)
      BY <2>1
    <3> QED
      BY <3>1, UpperLayers
  <2>3. 4 - k + 1 = 5 - k
    OBVIOUS
  <2> QED
    BY <1>1, <2>1, <2>2, <2>3
<1>4. /\ Stack[1] = Desktop /\ Stack[2] = ConsoleLayer /\ Stack[3] = MainLayer /\ Stack[4] = MouseLayer
      /\ at \in [Layer -> Point]
  BY DEF Stack, Steady
<1>5. PICK f : DrawnAs(f, buffers, layers, area, at, c)
  <2>1. Len(layers) \in 0..4
    BY <1>3
  <2> QED
    BY <1>3, <2>1, LayerByLayer
<1>6. DrawLayers(buffers, layers, area, at, c).back[p] = f[5 - k][p]
  BY <1>3, <1>5 DEF DrawnAs
<1>7. ASSUME NEW before
      PROVE  /\ DrawTo(before, Desktop, area, at, c)[p] = IF Within(p, area) THEN Ground ELSE before[p]
             /\ DrawTo(before, ConsoleLayer, area, at, c)[p] = IF Within(p, area) THEN Ground ELSE before[p]
             /\ DrawTo(before, MainLayer, area, at, c)[p] =
                  IF Within(p, area) /\ MainAt(at, p) THEN Main(c) ELSE before[p]
             /\ DrawTo(before, MouseLayer, area, at, c)[p] = IF CursorAt(at, p) THEN Cursor ELSE before[p]
  BY <1>4, GroundShows, MainShows, CursorShows
<1>8. CASE k = 4
  <2>1. f[1] = DrawTo(f[0], MouseLayer, area, at, c)
    BY <1>3, <1>4, <1>5, <1>8 DEF DrawnAs
  <2> QED
    BY <1>1, <1>5, <1>6, <1>7, <1>8, <2>1 DEF Repainted, DrawnAs
<1>9. CASE k = 3
  <2>1. /\ f[1] = DrawTo(f[0], MainLayer, area, at, c)
        /\ f[2] = DrawTo(f[1], MouseLayer, area, at, c)
    BY <1>3, <1>4, <1>5, <1>9 DEF DrawnAs
  <2>2. f[1][p] = IF Within(p, area) /\ MainAt(at, p) THEN Main(c) ELSE buffers.back[p]
    BY <1>5, <1>7, <2>1 DEF DrawnAs
  <2>3. f[2][p] = IF CursorAt(at, p) THEN Cursor ELSE f[1][p]
    BY <1>7, <2>1
  <2> QED
    BY <1>1, <1>6, <1>9, <2>2, <2>3 DEF Repainted
<1>10. CASE k \in {1, 2}
  <2>1. CASE k = 2
    <3>1. /\ f[1] = DrawTo(f[0], ConsoleLayer, area, at, c)
          /\ f[2] = DrawTo(f[1], MainLayer, area, at, c)
          /\ f[3] = DrawTo(f[2], MouseLayer, area, at, c)
      BY <1>3, <1>4, <1>5, <2>1 DEF DrawnAs
    <3>2. f[1][p] = IF Within(p, area) THEN Ground ELSE buffers.back[p]
      BY <1>5, <1>7, <3>1 DEF DrawnAs
    <3>3. f[2][p] = IF Within(p, area) /\ MainAt(at, p) THEN Main(c) ELSE f[1][p]
      BY <1>7, <3>1
    <3>4. f[3][p] = IF CursorAt(at, p) THEN Cursor ELSE f[2][p]
      BY <1>7, <3>1
    <3> QED
      BY <1>1, <1>6, <2>1, <3>2, <3>3, <3>4 DEF Repainted
  <2>2. CASE k = 1
    <3>1. /\ f[1] = DrawTo(f[0], Desktop, area, at, c)
          /\ f[2] = DrawTo(f[1], ConsoleLayer, area, at, c)
          /\ f[3] = DrawTo(f[2], MainLayer, area, at, c)
          /\ f[4] = DrawTo(f[3], MouseLayer, area, at, c)
      BY <1>3, <1>4, <1>5, <2>2 DEF DrawnAs
    <3>2. f[1][p] = IF Within(p, area) THEN Ground ELSE buffers.back[p]
      BY <1>5, <1>7, <3>1 DEF DrawnAs
    <3>3. f[2][p] = IF Within(p, area) THEN Ground ELSE f[1][p]
      BY <1>7, <3>1
    <3>4. f[3][p] = IF Within(p, area) /\ MainAt(at, p) THEN Main(c) ELSE f[2][p]
      BY <1>7, <3>1
    <3>5. f[4][p] = IF CursorAt(at, p) THEN Cursor ELSE f[3][p]
      BY <1>7, <3>1
    <3> QED
      BY <1>1, <1>6, <2>2, <3>2, <3>3, <3>4, <3>5 DEF Repainted
  <2> QED
    BY <1>10, <2>1, <2>2
<1> QED
  BY <1>8, <1>9, <1>10

\* Then the area is copied from the back buffer to the screen.
LEMMA AreaShows ==
  ASSUME NEW layers \in Seq(Layer), Len(layers) \in 0..4, NEW at, NEW area \in Rectangle,
         NEW buffers, NEW c, NEW p \in Pixels
  PROVE  DrawLayers(buffers, layers, area, at, c).screen[p] =
           IF Within(p, area) THEN DrawLayers(buffers, layers, area, at, c).back[p]
           ELSE buffers.screen[p]
<1>1. PICK back, old :
        /\ DrawLayers(buffers, layers, area, at, c) =
             [back |-> back, screen |-> Copy(old, area.pos, back, ScreenSize, area)]
        /\ old = buffers.screen
  BY LayerByLayer DEF DrawnAs
<1>2. ShowsCopy(old, back, Origin, ScreenSize, area, p)
  BY CopyShows, PixelsAreOnScreen
<1>3. Minus(area.pos, Origin) = area.pos /\ Rect(area.pos, area.size) = area /\ Minus(p, Origin) = p
  BY PixelsAreOnScreen DEF Rectangle, Point, Rect, Minus, Vec, Origin
<1>4. Intersection(ScreenArea, ScreenArea) = ScreenArea
  BY ScreenAssumption
  DEF Intersection, ScreenArea, ScreenSize, Rect, Vec, Origin, Plus, Minus, ElementMax, ElementMin
<1>5. Copy(old, area.pos, back, ScreenSize, area)[p] =
        IF Within(p, Intersection(ScreenArea, area)) THEN back[p] ELSE old[p]
  BY <1>2, <1>3, <1>4, PixelsAreOnScreen DEF ShowsCopy
<1>6. Within(p, Intersection(ScreenArea, area)) => Within(p, area)
  BY PixelsAreOnScreen, IntersectionIsWithin
<1>7. Within(p, area) => Within(p, Intersection(ScreenArea, area))
  <2> SUFFICES ASSUME Within(p, area) PROVE Within(p, Intersection(ScreenArea, area))
    OBVIOUS
  <2>1. ScreenArea.pos.y = 0 /\ p.x >= 0 /\ p.x \in Int /\ p.x < area.pos.x + area.size.x
    BY PixelsAreOnScreen DEF ScreenArea, Rect, Vec, Origin, Pixels, Within, Point
  <2>2. area.pos.x + area.size.x >= ScreenArea.pos.y
    BY <2>1 DEF Rectangle, Point
  <2> QED
    BY <2>2, PixelsAreOnScreen, WithinIntersection
<1> QED
  BY <1>1, <1>5, <1>6, <1>7

\* What the screen should show at a pixel: the cursor over main_window over the desktop.
Scene(at, c, p) ==
  IF CursorAt(at, p) THEN Cursor ELSE IF MainAt(at, p) THEN Main(c) ELSE Ground

\* Both buffers show it everywhere.
ShowsScene(buffers, at, c) ==
  \A p \in Pixels : buffers.back[p] = Scene(at, c, p) /\ buffers.screen[p] = Scene(at, c, p)

\* Two drawings differ in this: after draws the layers from the k-th on, in an area.
Overdrawn(k, area, at, c, before, after) ==
  \A p \in Pixels :
    /\ after.back[p] = Repainted(k, area, at, c, p, before.back[p])
    /\ after.screen[p] = IF Within(p, area) THEN after.back[p] ELSE before.screen[p]

\* Drawing the upper part of the stack.
LEMMA UpperIsOverdrawn ==
  ASSUME ScreenHeight <= ScreenWidth + 1, NEW at, Steady(at), ClearOfCorner(at),
         NEW area \in Rectangle, NEW buffers, NEW c, NEW k \in 1..4
  PROVE  Overdrawn(k, area, at, c, buffers, DrawLayers(buffers, SubSeq(Stack, k, 4), area, at, c))
<1>1. PICK s \in Seq(Layer) : s = Stack /\ Len(s) = 4
  BY StackOfLayers
<1>2. k \in 1..Len(s)
  BY <1>1
<1>3. SubSeq(s, k, Len(s)) \in Seq(Layer) /\ Len(SubSeq(s, k, Len(s))) = Len(s) - k + 1
  BY <1>2, UpperLayers
<1>4. PICK layers \in Seq(Layer) : layers = SubSeq(Stack, k, 4) /\ Len(layers) = 4 - k + 1
  BY <1>1, <1>3
<1>5. Len(layers) \in 0..4
  BY <1>4
<1>6. PICK after : after = DrawLayers(buffers, layers, area, at, c)
  OBVIOUS
<1>7. ASSUME NEW p \in Pixels
      PROVE  /\ after.back[p] = Repainted(k, area, at, c, p, buffers.back[p])
             /\ after.screen[p] = IF Within(p, area) THEN after.back[p] ELSE buffers.screen[p]
  <2>1. after.back[p] = Repainted(k, area, at, c, p, buffers.back[p])
    BY <1>4, <1>6, BackShows
  <2>2. after.screen[p] = IF Within(p, area) THEN after.back[p] ELSE buffers.screen[p]
    BY <1>5, <1>6, AreaShows
  <2> QED
    BY <2>1, <2>2
<1> QED
  BY <1>4, <1>6, <1>7 DEF Overdrawn

\* Drawing the whole stack in an area.
LEMMA AreaIsOverdrawn ==
  ASSUME ScreenHeight <= ScreenWidth + 1, NEW at, Steady(at), ClearOfCorner(at),
         NEW area \in Rectangle, NEW buffers, NEW c
  PROVE  Overdrawn(1, area, at, c, buffers, DrawArea(buffers, Stack, area, at, c))
<1>1. SubSeq(Stack, 1, 4) = Stack
  <2>1. PICK s \in Seq(Layer) : s = Stack /\ Len(s) = 4
    BY StackOfLayers
  <2>2. SubSeq(s, 1, Len(s)) = s
    OBVIOUS
  <2> QED
    BY <2>1, <2>2
<1>2. DrawArea(buffers, Stack, area, at, c) = DrawLayers(buffers, SubSeq(Stack, 1, 4), area, at, c)
  BY <1>1 DEF DrawArea
<1>3. PICK k \in 1..4 : k = 1
  OBVIOUS
<1>4. Overdrawn(k, area, at, c, buffers, DrawLayers(buffers, SubSeq(Stack, k, 4), area, at, c))
  BY UpperIsOverdrawn
<1> QED
  BY <1>2, <1>3, <1>4

\* The area of a layer's window is a rectangle.
LEMMA WindowIsRectangle ==
  ASSUME NEW at, Steady(at), NEW id \in Layer
  PROVE  WindowArea(id, at) \in Rectangle
<1>1. at[id] \in Point /\ Size(id) \in Point
  BY ScreenAssumption, PixelsAreOnScreen DEF Steady, Size, Point, Vec
<1> QED
  BY <1>1 DEF WindowArea, Rect, Rectangle

\* Drawing a layer of the stack.
LEMMA LayerIsOverdrawn ==
  ASSUME ScreenHeight <= ScreenWidth + 1, NEW at, Steady(at), ClearOfCorner(at),
         NEW id \in Layer, NEW any, NEW buffers, NEW c
  PROVE  Overdrawn(id, WindowArea(id, at), at, c, buffers, DrawLayer(buffers, Stack, id, any, at, c))
<1>1. id \in 1..4
  BY LayersDiffer
<1>2. PICK places : places = {i \in 1..Len(Stack) : Stack[i] = id}
  OBVIOUS
<1>3. places = {id}
  <2>1. Len(Stack) = 4 /\ Stack[1] = 1 /\ Stack[2] = 2 /\ Stack[3] = 3 /\ Stack[4] = 4
    BY DEF Stack, Desktop, ConsoleLayer, MainLayer, MouseLayer
  <2>2. \A i \in 1..4 : Stack[i] = i
    BY <2>1
  <2> QED
    BY <1>1, <1>2, <2>1, <2>2
<1>4. Min(places) = id
  <2>1. places \subseteq Nat /\ places # {}
    BY <1>1, <1>3
  <2> QED
    BY <1>3, <2>1, MinIsLeast
<1>5. PICK k : k = SelectInSeq(Stack, LAMBDA l : l = id)
  OBVIOUS
<1>6. k = id /\ k # 0
  BY <1>1, <1>2, <1>3, <1>4, <1>5 DEF SelectInSeq
<1>7. DrawLayer(buffers, Stack, id, any, at, c) =
        DrawLayers(buffers, SubSeq(Stack, id, Len(Stack)), WindowArea(id, at), at, c)
  BY <1>5, <1>6 DEF DrawLayer
<1>8. Len(Stack) = 4
  BY DEF Stack
<1> QED
  BY <1>1, <1>7, <1>8, WindowIsRectangle, UpperIsOverdrawn

\* The whole stack drawn on the whole screen is the scene.
LEMMA WholeIsScene ==
  ASSUME ScreenHeight <= ScreenWidth + 1, NEW at, Steady(at), ClearOfCorner(at),
         NEW buffers, NEW c
  PROVE  ShowsScene(DrawArea(buffers, Stack, ScreenArea, at, c), at, c)
<1>1. ScreenArea \in Rectangle /\ \A p \in Pixels : Within(p, ScreenArea)
  BY PixelsAreOnScreen
<1>2. Overdrawn(1, ScreenArea, at, c, buffers, DrawArea(buffers, Stack, ScreenArea, at, c))
  BY <1>1, AreaIsOverdrawn
<1> QED
  BY <1>1, <1>2 DEF Overdrawn, ShowsScene, Scene, Repainted

\* So is what is drawn from the console's layer on.
LEMMA ConsoleIsScene ==
  ASSUME ScreenHeight <= ScreenWidth + 1, NEW at, Steady(at), ClearOfCorner(at),
         NEW buffers, NEW any, NEW c
  PROVE  ShowsScene(DrawLayer(buffers, Stack, ConsoleLayer, any, at, c), at, c)
<1>1. WindowArea(ConsoleLayer, at) = ScreenArea
  BY DEF Steady, WindowArea, Size, ScreenArea, ConsoleLayer, MainLayer, MouseLayer
<1>2. ConsoleLayer \in Layer /\ ConsoleLayer = 2
  BY DEF Layer, ConsoleLayer
<1>3. Overdrawn(2, ScreenArea, at, c, buffers, DrawLayer(buffers, Stack, ConsoleLayer, any, at, c))
  BY <1>1, <1>2, LayerIsOverdrawn
<1> QED
  BY <1>3, PixelsAreOnScreen DEF Overdrawn, ShowsScene, Scene, Repainted

\* So is what is drawn from main_window on, when only what it shows has changed.
LEMMA CountedIsScene ==
  ASSUME ScreenHeight <= ScreenWidth + 1, NEW at, Steady(at), ClearOfCorner(at),
         NEW buffers, NEW any, NEW c, NEW now, ShowsScene(buffers, at, c)
  PROVE  ShowsScene(DrawLayer(buffers, Stack, MainLayer, any, at, now), at, now)
<1>1. MainLayer \in Layer /\ MainLayer = 3
  BY LayersDiffer
<1>2. Overdrawn(3, WindowArea(MainLayer, at), at, now, buffers,
                DrawLayer(buffers, Stack, MainLayer, any, at, now))
  BY <1>1, LayerIsOverdrawn
<1> QED
  BY <1>2 DEF Overdrawn, ShowsScene, Scene, Repainted, MainAt

\* A window that moves: where it was everything is drawn again, then where it is the
\* layers from it on. Elsewhere nothing has changed.
LEMMA MovedIsScene ==
  ASSUME ScreenHeight <= ScreenWidth + 1, NEW at, Steady(at), NEW id \in {MainLayer, MouseLayer},
         NEW to \in Point, ClearOfCorner([at EXCEPT ![id] = to]), NEW any,
         NEW buffers, ShowsScene(buffers, at, count), layer_stack = Stack
  PROVE  ShowsScene(Moved(buffers, at, id, to, any), [at EXCEPT ![id] = to], count)
<1>1. PICK now : now = [at EXCEPT ![id] = to]
  OBVIOUS
<1>2. /\ Steady(now) /\ ClearOfCorner(now) /\ id \in Layer
      /\ \A other \in Layer : other # id => now[other] = at[other]
  BY <1>1 DEF Steady, Layer, Desktop, ConsoleLayer, MainLayer, MouseLayer
<1>3. PICK old \in Rectangle : old = WindowArea(id, at)
  BY <1>2, WindowIsRectangle
<1>4. PICK new \in Rectangle : new = WindowArea(id, now)
  BY <1>2, WindowIsRectangle
<1>5. PICK left : left = DrawArea(buffers, Stack, old, now, count)
  OBVIOUS
<1>6. PICK moved : moved = DrawLayer(left, Stack, id, any, now, count)
  OBVIOUS
<1>7. Moved(buffers, at, id, to, any) = moved
  BY <1>1, <1>3, <1>5, <1>6 DEF Moved
<1>8. Overdrawn(1, old, now, count, buffers, left)
  BY <1>2, <1>5, AreaIsOverdrawn
<1>9. Overdrawn(id, new, now, count, left, moved)
  BY <1>2, <1>4, <1>6, LayerIsOverdrawn
<1>10. ASSUME NEW p \in Pixels
       PROVE  moved.back[p] = Scene(now, count, p) /\ moved.screen[p] = Scene(now, count, p)
  <2>1. /\ buffers.back[p] = Scene(at, count, p) /\ buffers.screen[p] = Scene(at, count, p)
        /\ left.back[p] = Repainted(1, old, now, count, p, buffers.back[p])
        /\ left.screen[p] = IF Within(p, old) THEN left.back[p] ELSE buffers.screen[p]
        /\ moved.back[p] = Repainted(id, new, now, count, p, left.back[p])
        /\ moved.screen[p] = IF Within(p, new) THEN moved.back[p] ELSE left.screen[p]
    BY <1>8, <1>9 DEF Overdrawn, ShowsScene
  <2>2. CASE id = MouseLayer
    <3>1. /\ id = 4 /\ MainAt(now, p) = MainAt(at, p)
          /\ CursorAt(at, p) => Within(p, old)
          /\ CursorAt(now, p) => Within(p, new)
      BY <1>2, <1>3, <1>4, <2>2, LayersDiffer DEF MainAt, CursorAt, WindowArea
    <3> QED
      BY <2>1, <3>1 DEF Scene, Repainted
  <2>3. CASE id = MainLayer
    <3>1. /\ id = 3 /\ CursorAt(now, p) = CursorAt(at, p)
          /\ MainAt(at, p) = Within(p, old)
          /\ MainAt(now, p) = Within(p, new)
      BY <1>2, <1>3, <1>4, <2>3, LayersDiffer DEF MainAt, CursorAt, WindowArea
    <3> QED
      BY <2>1, <3>1 DEF Scene, Repainted
  <2> QED
    BY <2>2, <2>3
<1> QED
  BY <1>1, <1>7, <1>10 DEF ShowsScene

\* Drawn from scratch the layers are the scene.
LEMMA ComposedIsScene ==
  ASSUME layer_stack = Stack, Steady(pos), NEW p \in Pixels
  PROVE  Composed(p) = Scene(pos, count, p)
<1> DEFINE Shows(id) == /\ Within(p, WindowArea(id, pos))
                        /\ At(id, Minus(p, pos[id]), count)[1] # "transparent"
<1>1. PICK places : places = {i \in 1..Len(layer_stack) : Shows(layer_stack[i])}
  OBVIOUS
<1>2. PICK place : place = IF places # {} THEN Max(places) ELSE 0
  OBVIOUS
<1>3. Composed(p) = At(layer_stack[place], Minus(p, pos[layer_stack[place]]), count)
  BY <1>1, <1>2 DEF Composed, SelectLastInSeq
<1>4. \A i \in 1..4 : Stack[i] = i
  BY DEF Stack, Desktop, ConsoleLayer, MainLayer, MouseLayer
<1>5. places = {i \in 1..4 : Shows(i)}
  BY <1>1, <1>4, StackOfLayers
<1>6. /\ \A x : At(ConsoleLayer, x, count) = Ground /\ At(MainLayer, x, count) = Main(count)
      /\ Ground[1] # "transparent" /\ Main(count)[1] # "transparent"
  BY DEF At, Ground, Main, ConsoleLayer, MainLayer, MouseLayer
<1>7. Shows(2)
  <2>1. Within(p, WindowArea(ConsoleLayer, pos))
    BY PixelsAreOnScreen
    DEF Steady, WindowArea, Size, ScreenArea, ConsoleLayer, MainLayer, MouseLayer
  <2> QED
    BY <1>6, <2>1 DEF ConsoleLayer
<1>8. Shows(3) <=> MainAt(pos, p)
  BY <1>6, LayersDiffer DEF MainAt
<1>9. /\ Shows(4) <=> CursorAt(pos, p)
      /\ CursorAt(pos, p) => At(MouseLayer, Minus(p, pos[MouseLayer]), count) = Cursor
  <2>1. Minus(p, pos[MouseLayer]).x = p.x - pos[MouseLayer].x /\ p.x \in Int /\ pos[MouseLayer].x \in Int
    BY LayersDiffer, PixelsAreOnScreen DEF Steady, Minus, Vec, Point
  <2>2. At(MouseLayer, Minus(p, pos[MouseLayer]), count) =
          IF p.x = pos[MouseLayer].x THEN Cursor ELSE <<"transparent", 0>>
    BY <2>1 DEF At, Cursor, MainLayer, MouseLayer
  <2>3. Cursor[1] # "transparent" /\ <<"transparent", 0>>[1] = "transparent"
    BY DEF Cursor
  <2> QED
    BY <2>2, <2>3, LayersDiffer DEF CursorAt
<1> HIDE DEF Shows
<1>10. place \in places /\ \A i \in places : i <= place
  BY <1>2, <1>5, <1>7, MaxIsGreatest
<1>11. place = IF CursorAt(pos, p) THEN 4 ELSE IF MainAt(pos, p) THEN 3 ELSE 2
  BY <1>5, <1>7, <1>8, <1>9, <1>10
<1>12. layer_stack[place] = place
  BY <1>4, <1>11
<1> QED
  BY <1>3, <1>6, <1>9, <1>11, <1>12 DEF Scene, ConsoleLayer, MainLayer, MouseLayer

\* t is s with a new layer on top.
Topped(s, id, t) ==
  /\ Len(t) = Len(s) + 1 /\ t[Len(t)] = id
  /\ \A i \in 1..Len(s) : s[i] # id /\ t[i] = s[i]

\* A new layer is put on top of the others.
LEMMA UpDownAppends ==
  ASSUME NEW s \in Seq(Layer), NEW id \in Layer, NEW t \in Seq(Layer), Topped(s, id, t),
         NEW height \in Nat, height >= Len(s)
  PROVE  UpDown(s, id, height) = t
<1> USE DEF Topped
<1>1. PICK places : places = {i \in 1..Len(s) : s[i] = id}
  OBVIOUS
<1>2. PICK old : old = IF places # {} THEN Min(places) ELSE 0
  OBVIOUS
<1>3. old = 0
  BY <1>1, <1>2
<1>4. (IF height > Len(s) THEN Len(s) ELSE height) = Len(s)
  OBVIOUS
<1>5. UpDown(s, id, height) = InsertAt(s, Len(s) + 1, id)
  BY <1>1, <1>2, <1>3, <1>4 DEF UpDown, SelectInSeq
<1>6. InsertAt(s, Len(s) + 1, id) = SubSeq(s, 1, Len(s)) \o <<id>> \o SubSeq(s, Len(s) + 1, Len(s))
  BY DEF InsertAt
<1>7. UpDown(s, id, height) = Append(s, id)
  BY <1>5, <1>6
<1>8. Append(s, id) = t
  <2>1. PICK u : u = Append(s, id)
    OBVIOUS
  <2>2. u \in Seq(Layer) /\ Len(u) = Len(t) /\ \A i \in 1..Len(u) : u[i] = t[i]
    BY <2>1, AppendProperties
  <2>3. u = t
    BY <2>2, SeqEqual
  <2> QED
    BY <2>1, <2>3
<1> QED
  BY <1>7, <1>8

\* main_window is clear of the corner from the first full drawing on.
InTheClear == start = "done" => ClearOfCorner(pos)

\* The invariant: the layers that the start-up has put on the stack, in the order of
\* their creation, and, once it is done, the scene in both buffers.
SceneInv ==
  /\ layer_stack = CASE start = "layers" -> <<>>
                     [] start = "window" -> <<Desktop, ConsoleLayer>>
                     [] start = "mouse" -> <<Desktop, ConsoleLayer, MainLayer>>
                     [] OTHER -> Stack
  /\ Steady(pos)
  /\ start = "done" => ShowsScene(Buffers, pos, count)

\* What the start-up makes of the stack.
LEMMA StackGrows ==
  /\ UpDown(UpDown(<<>>, Desktop, 0), ConsoleLayer, 1) = <<Desktop, ConsoleLayer>>
  /\ UpDown(<<Desktop, ConsoleLayer>>, MainLayer, Topmost) = <<Desktop, ConsoleLayer, MainLayer>>
  /\ UpDown(<<Desktop, ConsoleLayer, MainLayer>>, MouseLayer, Topmost) = Stack
<1>1. /\ {Desktop, ConsoleLayer, MainLayer, MouseLayer} \subseteq Layer
      /\ ConsoleLayer # Desktop /\ MainLayer \notin {Desktop, ConsoleLayer}
      /\ MouseLayer \notin {Desktop, ConsoleLayer, MainLayer}
  BY DEF Layer, Desktop, ConsoleLayer, MainLayer, MouseLayer
<1>2. PICK none, one, two, three, four :
        /\ none = <<>> /\ one = <<Desktop>> /\ two = <<Desktop, ConsoleLayer>>
        /\ three = <<Desktop, ConsoleLayer, MainLayer>> /\ four = Stack
  OBVIOUS
<1>3. none \in Seq(Layer) /\ Len(none) = 0
  BY <1>1, <1>2
<1>4. one \in Seq(Layer) /\ Len(one) = 1 /\ one[1] = Desktop
  BY <1>1, <1>2
<1>5. two \in Seq(Layer) /\ Len(two) = 2 /\ two[1] = Desktop /\ two[2] = ConsoleLayer
  BY <1>1, <1>2
<1>6. three \in Seq(Layer) /\ Len(three) = 3 /\ three[1] = Desktop /\ three[2] = ConsoleLayer /\ three[3] = MainLayer
  BY <1>1, <1>2
<1>7. four \in Seq(Layer) /\ Len(four) = 4 /\ four[1] = Desktop /\ four[2] = ConsoleLayer /\ four[3] = MainLayer /\ four[4] = MouseLayer
  BY <1>1, <1>2 DEF Stack
<1>8. Topmost \in Nat /\ Topmost >= 3
  BY SMT DEF Topmost
<1>9. UpDown(none, Desktop, 0) = one
  <2>1. Topped(none, Desktop, one) /\ 0 \in Nat /\ 0 >= Len(none)
    BY <1>1, <1>3, <1>4 DEF Topped
  <2> QED
    BY <1>1, <1>3, <1>4, <2>1, UpDownAppends
<1>10. UpDown(one, ConsoleLayer, 1) = two
  <2>1. Topped(one, ConsoleLayer, two) /\ 1 \in Nat /\ 1 >= Len(one)
    BY <1>1, <1>4, <1>5 DEF Topped
  <2> QED
    BY <1>1, <1>4, <1>5, <2>1, UpDownAppends
<1>11. UpDown(two, MainLayer, Topmost) = three
  <2>1. Topped(two, MainLayer, three) /\ Topmost \in Nat /\ Topmost >= Len(two)
    BY <1>1, <1>5, <1>6, <1>8 DEF Topped
  <2> QED
    BY <1>1, <1>5, <1>6, <2>1, UpDownAppends
<1>12. UpDown(three, MouseLayer, Topmost) = four
  <2>1. Topped(three, MouseLayer, four) /\ Topmost \in Nat /\ Topmost >= Len(three)
    BY <1>1, <1>6, <1>7, <1>8 DEF Topped
  <2> QED
    BY <1>1, <1>6, <1>7, <2>1, UpDownAppends
<1> QED
  BY <1>2, <1>9, <1>10, <1>11, <1>12

\* What is drawn is in the buffers.
LEMMA BuffersAreSet ==
  ASSUME NEW drawing, SetBuffers(drawing), NEW at, NEW c, ShowsScene(drawing, at, c)
  PROVE  ShowsScene(Buffers', at, c)
BY DEF SetBuffers, Buffers, ShowsScene

\* It holds when the kernel starts.
LEMMA InitSceneInv == Init => SceneInv
<1> SUFFICES ASSUME Init PROVE SceneInv
  OBVIOUS
<1>1. start = "layers" /\ layer_stack = <<>> /\ pos = [id \in Layer |-> Origin]
  BY DEF Init
<1>2. Steady(pos)
  BY <1>1, PixelsAreOnScreen DEF Steady, Layer
<1> QED
  BY <1>1, <1>2 DEF SceneInv

\* The start-up keeps it. It ends with a drawing of the whole screen.
LEMMA StartKeepsSceneInv ==
  ASSUME ScreenHeight <= ScreenWidth + 1, DragInv, DragInv', InTheClear', SceneInv,
         InitializeLayer \/ InitializeMainWindow \/ InitializeMouse \/ DrawScreen
  PROVE  SceneInv'
<1>1. CASE InitializeLayer
  <2>1. start = "layers" /\ start' = "window" /\ pos' = pos
    BY <1>1 DEF InitializeLayer
  <2>2. layer_stack' = <<Desktop, ConsoleLayer>>
    BY <1>1, <2>1, StackGrows DEF InitializeLayer, SceneInv
  <2> QED
    BY <2>1, <2>2 DEF SceneInv, Steady
<1>2. CASE InitializeMainWindow
  <2>1. start = "window" /\ start' = "mouse" /\ pos' = [pos EXCEPT ![MainLayer] = Vec(MainX, MainY)]
    BY <1>2 DEF InitializeMainWindow
  <2>2. layer_stack' = <<Desktop, ConsoleLayer, MainLayer>>
    BY <1>2, <2>1, StackGrows DEF InitializeMainWindow, SceneInv
  <2>3. Steady(pos')
    BY <2>1 DEF SceneInv, Steady, DragInv, Layer, Desktop, ConsoleLayer, MainLayer
  <2> QED
    BY <2>1, <2>2, <2>3 DEF SceneInv
<1>3. CASE InitializeMouse
  <2>1. start = "mouse" /\ start' = "draw" /\ pos' = [pos EXCEPT ![MouseLayer] = position']
    BY <1>3 DEF InitializeMouse
  <2>2. layer_stack' = Stack
    BY <1>3, <2>1, StackGrows DEF InitializeMouse, SceneInv
  <2>3. Steady(pos')
    BY <2>1 DEF SceneInv, Steady, DragInv, Layer, Desktop, ConsoleLayer, MouseLayer
  <2> QED
    BY <2>1, <2>2, <2>3 DEF SceneInv
<1>4. CASE DrawScreen
  <2>1. /\ start = "draw" /\ start' = "done" /\ pos' = pos /\ count' = count
        /\ layer_stack' = layer_stack
        /\ SetBuffers(DrawArea(Buffers, layer_stack, ScreenArea, pos, count))
    BY <1>4 DEF DrawScreen
  <2>2. layer_stack = Stack /\ Steady(pos) /\ ClearOfCorner(pos)
    BY <2>1 DEF SceneInv, InTheClear
  <2>3. ShowsScene(Buffers', pos, count)
    BY <2>1, <2>2, WholeIsScene, BuffersAreSet
  <2> QED
    BY <2>1, <2>2, <2>3 DEF SceneInv
<1> QED
  BY <1>1, <1>2, <1>3, <1>4

\* What the main flow draws keeps it.
LEMMA DrawingKeepsSceneInv ==
  ASSUME ScreenHeight <= ScreenWidth + 1, InTheClear, SceneInv, CountUp \/ PutString
  PROVE  SceneInv'
<1>1. /\ start = "done" /\ start' = "done" /\ pos' = pos /\ layer_stack' = layer_stack
      /\ layer_stack = Stack
  BY DEF CountUp, PutString, SceneInv
<1>2. Steady(pos) /\ ClearOfCorner(pos) /\ ShowsScene(Buffers, pos, count)
  BY <1>1 DEF SceneInv, InTheClear
<1>3. CASE CountUp
  <2>1. SetBuffers(DrawLayer(Buffers, Stack, MainLayer, ScreenArea, pos, count'))
    BY <1>1, <1>3 DEF CountUp
  <2>2. PICK now : now = count'
    OBVIOUS
  <2>3. ShowsScene(DrawLayer(Buffers, Stack, MainLayer, ScreenArea, pos, now), pos, now)
    BY <1>2, CountedIsScene
  <2>4. ShowsScene(Buffers', pos, count')
    BY <2>1, <2>2, <2>3, BuffersAreSet
  <2> QED
    BY <1>1, <1>2, <2>4 DEF SceneInv
<1>4. CASE PutString
  <2>1. SetBuffers(DrawLayer(Buffers, Stack, ConsoleLayer, ScreenArea, pos, count)) /\ count' = count
    BY <1>1, <1>4 DEF PutString
  <2>2. ShowsScene(Buffers', pos, count)
    BY <1>2, <2>1, ConsoleIsScene, BuffersAreSet
  <2> QED
    BY <1>1, <1>2, <2>1, <2>2 DEF SceneInv
<1> QED
  BY <1>3, <1>4

\* A report keeps it: the mouse moves, and after it the window that is dragged.
LEMMA ReportKeepsSceneInv ==
  ASSUME ScreenHeight <= ScreenWidth + 1, DragInv, InTheClear, InTheClear', SceneInv,
         NEW pressed \in BOOLEAN, NEW displacement \in Displacements,
         OnInterrupt(pressed, displacement)
  PROVE  SceneInv'
<1>1. PICK new : new = NewPosition(displacement)
  OBVIOUS
<1>2. PICK at : at = [pos EXCEPT ![MouseLayer] = new.pos]
  OBVIOUS
<1>3. PICK moved : moved = Moved(Buffers, pos, MouseLayer, new.pos, ScreenArea)
  OBVIOUS
<1>4. /\ start = "done" /\ start' = "done" /\ layer_stack' = layer_stack /\ count' = count
      /\ layer_stack = Stack
  BY DEF OnInterrupt, SceneInv
<1>5. IF previous_pressed /\ pressed /\ drag_layer_id > 0
        THEN LET to == Plus(pos[drag_layer_id], new.diff) IN
             /\ pos' = [at EXCEPT ![drag_layer_id] = to]
             /\ SetBuffers(Moved(moved, at, drag_layer_id, to, ScreenArea))
        ELSE pos' = at /\ SetBuffers(moved)
  BY <1>1, <1>2, <1>3 DEF OnInterrupt
<1>6. Steady(pos) /\ ClearOfCorner(pos) /\ ShowsScene(Buffers, pos, count) /\ ClearOfCorner(pos')
  BY <1>4 DEF SceneInv, InTheClear
<1>7. new.pos \in Point /\ new.diff \in Point
  <2>1. new.pos \in Pixels /\ new.diff = Minus(new.pos, position) /\ position \in Point
    BY <1>1, MouseStaysOnScreen DEF DragInv
  <2>2. new.pos \in Point
    BY <2>1, PixelsAreOnScreen
  <2> QED
    BY <2>1, <2>2 DEF Minus, Vec, Point
<1>8. Steady(at) /\ ClearOfCorner(at)
  BY <1>2, <1>6, <1>7
  DEF Steady, ClearOfCorner, MainAt, WindowArea, Layer, Desktop, ConsoleLayer, MainLayer, MouseLayer
<1>9. ShowsScene(moved, at, count)
  BY <1>2, <1>3, <1>4, <1>6, <1>7, <1>8, MovedIsScene
<1>10. CASE previous_pressed /\ pressed /\ drag_layer_id > 0
  <2>1. drag_layer_id = MainLayer
    BY <1>10 DEF DragInv
  <2>2. PICK to : to = Plus(pos[MainLayer], new.diff)
    OBVIOUS
  <2>3. to \in Point
    <3>1. pos[MainLayer] \in Point
      BY LayersDiffer DEF DragInv
    <3> QED
      BY <1>7, <2>2, <3>1 DEF Plus, Vec, Point
  <2>4. pos' = [at EXCEPT ![MainLayer] = to] /\ SetBuffers(Moved(moved, at, MainLayer, to, ScreenArea))
    BY <1>5, <1>10, <2>1, <2>2
  <2>5. PICK now : now = pos'
    OBVIOUS
  <2>6. now = [at EXCEPT ![MainLayer] = to] /\ ClearOfCorner(now)
    BY <1>6, <2>4, <2>5
  <2>7. ShowsScene(Moved(moved, at, MainLayer, to, ScreenArea), now, count)
    BY <1>4, <1>8, <1>9, <2>3, <2>6, MovedIsScene
  <2>8. ShowsScene(Buffers', now, count)
    BY <2>4, <2>7, BuffersAreSet
  <2>9. Steady(now)
    BY <1>8, <2>3, <2>6 DEF Steady, Layer, Desktop, ConsoleLayer, MainLayer
  <2> QED
    BY <1>4, <2>5, <2>8, <2>9 DEF SceneInv
<1>11. CASE ~(previous_pressed /\ pressed /\ drag_layer_id > 0)
  <2>1. pos' = at /\ SetBuffers(moved)
    BY <1>5, <1>11
  <2>2. ShowsScene(Buffers', at, count)
    BY <1>9, <2>1, BuffersAreSet
  <2> QED
    BY <1>4, <1>8, <2>1, <2>2 DEF SceneInv
<1> QED
  BY <1>10, <1>11

\* Every step keeps it.
LEMMA NextSceneInv ==
  ASSUME ScreenHeight <= ScreenWidth + 1, DragInv, DragInv', InTheClear, InTheClear', SceneInv,
         [Next]_vars
  PROVE  SceneInv'
<1>1. CASE Next
  BY <1>1, StartKeepsSceneInv, DrawingKeepsSceneInv, ReportKeepsSceneInv DEF Next
<1>2. CASE UNCHANGED vars
  BY <1>2 DEF vars, SceneInv, Steady, Buffers, ShowsScene
<1> QED
  BY <1>1, <1>2

\* The screen shows the layers as they are after every call (Draw, Move and MoveRelative
\* of LayerManager, layer.cpp:68-130), as long as no pixel of main_window is more than
\* one row below the diagonal from the upper left corner: there operator& can take for
\* disjoint what is not (graphics.hpp:86-89). For the same reason the screen may not be
\* higher than wide by more than one row.
THEOREM ScreenIsLayers ==
  ASSUME ScreenHeight <= ScreenWidth + 1
  PROVE  Spec /\ []InTheClear => []ScreenShowsLayers
<1>1. SceneInv => ScreenShowsLayers
  <2> SUFFICES ASSUME SceneInv, start = "done", NEW p \in Pixels PROVE screen[p] = Composed(p)
    BY DEF ScreenShowsLayers
  <2>1. layer_stack = Stack /\ Steady(pos) /\ Buffers.screen[p] = Scene(pos, count, p)
    BY DEF SceneInv, ShowsScene
  <2> QED
    BY <2>1, ComposedIsScene DEF Buffers
<1>2. DragInv /\ DragInv' /\ InTheClear /\ InTheClear' /\ SceneInv /\ [Next]_vars => SceneInv'
  BY NextSceneInv
<1> QED
  BY <1>1, <1>2, InitDragInv, NextDragInv, InitSceneInv, PTL DEF Spec

-----------------------------------------------------------------------------
(* The console.                                                            *)

Line == [0..Columns -> Chars \cup {Nul}]
PixelLine == [ColumnSet -> SUBSET (Glyphs \cup {BgWindow})]
Picture == [RowSet -> PixelLine]

\* The cells of a row from a column on have nothing drawn on them.
EmptyFrom(line, column) == \A c \in ColumnSet : c >= column => line[c] = {}

\* What is drawn is what the buffer holds, up to the change to a window; the text of
\* the row with the cursor ends at the cursor, and so does what is drawn of it.
ConsoleInv ==
  /\ buffer \in [RowSet -> Line]
  /\ cursor_row \in RowSet /\ cursor_column \in ColumnSet
  /\ has_window \in BOOLEAN
  /\ frame_buffer \in Picture /\ window \in Picture
  /\ ~has_window =>
       /\ \A r \in RowSet : frame_buffer[r] = Drawn(buffer[r])
       /\ \A i \in 0..Columns : buffer[cursor_row][i] = Nul <=> i >= cursor_column
       /\ \A r \in RowSet : r > cursor_row => \A i \in 0..Columns : buffer[r][i] = Nul
  /\ EmptyFrom(Display[cursor_row], cursor_column)
  /\ \A r \in RowSet : r > cursor_row => EmptyFrom(Display[r], 0)

\* The sizes, in numbers.
LEMMA Sizes ==
  /\ Rows \in Nat \ {0} /\ Columns \in Nat \ {0}
  /\ RowSet = 0..(Rows - 1) /\ ColumnSet = 0..(Columns - 1)
  /\ 0 \in RowSet /\ Rows - 1 \in RowSet /\ 0 \in ColumnSet /\ ColumnSet \subseteq 0..Columns
  /\ \A r \in RowSet : r < Rows - 1 => r + 1 \in RowSet
BY ConsoleAssumption DEF RowSet, ColumnSet

\* A row as it is drawn, cell by cell.
LEMMA DrawnCells ==
  ASSUME NEW string \in Line
  PROVE  /\ Drawn(string) \in PixelLine
         /\ \A c \in ColumnSet : (\A i \in 0..c : string[i] # Nul) => Drawn(string)[c] = {string[c]} \cap Glyphs
         /\ \A c \in ColumnSet : ~(\A i \in 0..c : string[i] # Nul) => Drawn(string)[c] = {}
BY DEF Drawn, PixelLine

\* A row without text is drawn without glyphs.
LEMMA NothingDrawn ==
  ASSUME NEW string \in Line, NEW column \in 0..Columns,
         \A i \in 0..Columns : i >= column => string[i] = Nul
  PROVE  EmptyFrom(Drawn(string), column)
<1> SUFFICES ASSUME NEW c \in ColumnSet, c >= column PROVE Drawn(string)[c] = {}
  BY DEF EmptyFrom
<1>1. c \in 0..c /\ c \in 0..Columns
  BY Sizes
<1>2. string[c] = Nul
  BY <1>1
<1> QED
  BY <1>1, <1>2, DrawnCells

\* FrameBuffer::Move by a row up leaves every row with what was in the next, the last
\* one aside: no line is overwritten before it has been copied.
LEMMA MovedUp ==
  ASSUME NEW pixels \in Picture
  PROVE  /\ Move(pixels, 0, 1, Rows - 1) \in Picture
         /\ \A r \in RowSet : r < Rows - 1 => Move(pixels, 0, 1, Rows - 1)[r] = pixels[r + 1]
<1> DEFINE height == Rows - 1
           line(n) == IF 0 < 1 THEN n - 1 ELSE height - n
           IsCopied(f) ==
             f = [n \in 0..height |-> IF n = 0 THEN pixels
                                      ELSE [f[n - 1] EXCEPT ![0 + line(n)] = f[n - 1][1 + line(n)]]]
           After(n) == [r \in RowSet |-> IF r < n THEN pixels[r + 1] ELSE pixels[r]]
<1>1. height \in Nat /\ height \in 0..height /\ height = Rows - 1
  BY Sizes
<1>2. ASSUME NEW n \in 1..height
      PROVE  [After(n - 1) EXCEPT ![0 + line(n)] = After(n - 1)[1 + line(n)]] = After(n)
  <2>1. line(n) = n - 1 /\ n - 1 \in RowSet /\ n \in RowSet /\ 0 + (n - 1) = n - 1 /\ 1 + (n - 1) = n
    BY <1>1, Sizes
  <2>2. After(n - 1)[n] = pixels[n]
    BY <2>1
  <2>3. ASSUME NEW r \in RowSet
        PROVE  [After(n - 1) EXCEPT ![n - 1] = pixels[n]][r] = After(n)[r]
    <3>1. r \in Nat
      BY Sizes
    <3>2. CASE r = n - 1
      BY <2>1, <3>1, <3>2
    <3>3. CASE r # n - 1
      <4>1. r < n - 1 <=> r < n
        BY <3>1, <3>3
      <4> QED
        BY <2>1, <3>3, <4>1
    <3> QED
      BY <3>2, <3>3
  <2>4. [After(n - 1) EXCEPT ![n - 1] = pixels[n]] = After(n)
    BY <2>3
  <2> QED
    BY <2>1, <2>2, <2>4
<1>3. After(0) = pixels
  <2>1. \A r \in RowSet : ~(r < 0)
    BY Sizes
  <2> QED
    BY <2>1 DEF Picture
<1> HIDE DEF After, line, height
<1>4. \E f : IsCopied(f)
  <2>1. PICK f : f = [n \in 0..height |-> After(n)]
    OBVIOUS
  <2>2. PICK g : g = [n \in 0..height |-> IF n = 0 THEN pixels
                        ELSE [f[n - 1] EXCEPT ![0 + line(n)] = f[n - 1][1 + line(n)]]]
    OBVIOUS
  <2>3. ASSUME NEW n \in 0..height PROVE f[n] = g[n]
    <3>1. CASE n = 0
      BY <1>3, <2>1, <2>2, <3>1
    <3>2. CASE n # 0
      <4>1. n \in 1..height /\ n - 1 \in 0..height
        BY <1>1, <3>2
      <4>2. f[n - 1] = After(n - 1) /\ f[n] = After(n)
        BY <2>1, <4>1
      <4>3. g[n] = [f[n - 1] EXCEPT ![0 + line(n)] = f[n - 1][1 + line(n)]]
        BY <2>2, <3>2
      <4> QED
        BY <1>2, <4>1, <4>2, <4>3
    <3> QED
      BY <3>1, <3>2
  <2>4. f = g
    BY <2>1, <2>2, <2>3
  <2> QED
    BY <2>2, <2>4
<1>5. PICK copied : IsCopied(copied) /\ Move(pixels, 0, 1, Rows - 1) = copied[height]
  BY <1>4 DEF Move, height, line
<1>6. ASSUME NEW n \in 0..height PROVE copied[n] = After(n)
  <2> SUFFICES ASSUME copied[n] # After(n) PROVE FALSE
    OBVIOUS
  <2>1. PICK wrong : wrong = {k \in 0..height : copied[k] # After(k)}
    OBVIOUS
  <2>2. wrong \subseteq Nat /\ wrong # {}
    BY <1>1, <2>1
  <2>3. \E least \in wrong : \A k \in wrong : least <= k
    BY <2>2, LeastNumber
  <2>4. PICK least \in wrong : \A k \in wrong : least <= k
    BY <2>3
  <2>5. least # 0
    BY <1>3, <1>5, <2>1, <2>4
  <2>6. least \in 1..height /\ least - 1 \in 0..height /\ ~(least <= least - 1)
    BY <1>1, <2>1, <2>4, <2>5
  <2>7. copied[least - 1] = After(least - 1)
    BY <2>1, <2>4, <2>6
  <2>8. copied[least] = [copied[least - 1] EXCEPT ![0 + line(least)] = copied[least - 1][1 + line(least)]]
    <3>1. least \in 0..height
      BY <2>1, <2>4
    <3>2. copied[least] = IF least = 0 THEN pixels
            ELSE [copied[least - 1] EXCEPT ![0 + line(least)] = copied[least - 1][1 + line(least)]]
      BY <1>5, <3>1
    <3> QED
      BY <2>5, <3>2
  <2> QED
    BY <1>2, <2>1, <2>4, <2>6, <2>7, <2>8
<1>7. Move(pixels, 0, 1, Rows - 1) = After(Rows - 1)
  BY <1>1, <1>5, <1>6 DEF height
<1>8. \A r \in RowSet : After(Rows - 1)[r] \in PixelLine
  BY Sizes DEF Picture, After
<1>9. After(Rows - 1) \in Picture
  BY <1>8 DEF Picture, After
<1>10. \A r \in RowSet : r < Rows - 1 => After(Rows - 1)[r] = pixels[r + 1]
  BY DEF After
<1> QED
  BY <1>7, <1>9, <1>10

\* What T means by a step of its own, in one line.
Step == T!Next \/ UNCHANGED <<Display, cursor_row, cursor_column>>

\* The types, apart from the rest.
ConsoleTypes ==
  /\ buffer \in [RowSet -> Line]
  /\ cursor_row \in RowSet /\ cursor_column \in ColumnSet
  /\ has_window \in BOOLEAN
  /\ frame_buffer \in Picture /\ window \in Picture

\* What Write changes.
LEMMA Written ==
  ASSUME ConsoleTypes, NEW pixels \in Picture, Write(pixels), has_window' = has_window
  PROVE  /\ Display \in Picture /\ Display' = pixels
         /\ frame_buffer' \in Picture /\ window' \in Picture
         /\ ~has_window => frame_buffer = Display /\ frame_buffer' = pixels
BY DEF ConsoleTypes, Write, Display

\* A new line is one of a picture.
LEMMA BlankIsPicture ==
  /\ [c \in ColumnSet |-> {}] \in PixelLine /\ Blank \in Picture /\ Covered \in Picture
  /\ EmptyRow \in Line /\ Drawn(EmptyRow) = [c \in ColumnSet |-> {}]
<1>1. [c \in ColumnSet |-> {}] \in PixelLine /\ Blank \in Picture /\ Covered \in Picture
  BY DEF PixelLine, Picture, Blank, Covered
<1>2. EmptyRow \in Line /\ \A i \in 0..Columns : EmptyRow[i] = Nul
  BY DEF EmptyRow, Line
<1>3. EmptyFrom(Drawn(EmptyRow), 0)
  <2>1. 0 \in 0..Columns
    BY Sizes
  <2> QED
    BY <1>2, <2>1, NothingDrawn
<1>4. \A c \in ColumnSet : Drawn(EmptyRow)[c] = {}
  BY <1>3, Sizes DEF EmptyFrom
<1>5. Drawn(EmptyRow) = [c \in ColumnSet |-> {}]
  BY <1>4 DEF Drawn
<1> QED
  BY <1>1, <1>2, <1>5

\* At first there is nothing.
LEMMA ConsoleInitially == ConsoleInit => ConsoleInv /\ T!Init
<1> SUFFICES ASSUME ConsoleInit PROVE ConsoleInv /\ T!Init
  OBVIOUS
<1>1. /\ buffer = [r \in RowSet |-> EmptyRow] /\ cursor_row = 0 /\ cursor_column = 0
      /\ has_window = FALSE /\ frame_buffer = Blank /\ window = Blank /\ Display = Blank
  BY DEF ConsoleInit, Display
<1>2. \A r \in RowSet : /\ Blank[r] = [c \in ColumnSet |-> {}] /\ buffer[r] = EmptyRow
                        /\ EmptyFrom(Blank[r], 0)
  BY <1>1 DEF Blank, EmptyFrom
<1>3. \A i \in 0..Columns : EmptyRow[i] = Nul /\ i >= 0
  BY DEF EmptyRow
<1>4. buffer \in [RowSet -> Line]
  BY <1>1, BlankIsPicture
<1>5. ConsoleInv
  BY <1>1, <1>2, <1>3, <1>4, BlankIsPicture, Sizes DEF ConsoleInv
<1>6. T!Init
  BY <1>1 DEF T!Init, T!RowSet, T!BlankLine, T!ColumnSet, Blank, RowSet, ColumnSet
<1> QED
  BY <1>5, <1>6

\* A character is drawn on a cell with nothing on it.
LEMMA PutCharKeeps == ASSUME ConsoleInv, PutChar PROVE ConsoleInv' /\ Step
<1>1. PICK char \in Chars :
        /\ Write([Display EXCEPT ![cursor_row][cursor_column] = @ \cup ({char} \cap Glyphs)])
        /\ buffer' = [buffer EXCEPT ![cursor_row][cursor_column] = char]
  BY DEF PutChar
<1>2. /\ cursor_column' = cursor_column + 1 /\ cursor_row' = cursor_row /\ has_window' = has_window
      /\ cursor_column < Columns - 1
  BY DEF PutChar
<1>3. ConsoleTypes /\ cursor_row \in RowSet /\ cursor_column \in ColumnSet
  BY DEF ConsoleInv, ConsoleTypes
<1>4. cursor_column \in Nat /\ cursor_column + 1 \in ColumnSet /\ cursor_column \in 0..Columns
  BY <1>2, <1>3, Sizes
<1>5. Display \in Picture
  BY <1>3 DEF ConsoleTypes, Display
<1>6. PICK line \in PixelLine : line = Display[cursor_row]
  BY <1>3, <1>5 DEF Picture
<1>7. line[cursor_column] = {}
  BY <1>3, <1>4, <1>6 DEF ConsoleInv, EmptyFrom
<1>8. PICK next \in PixelLine : next = [line EXCEPT ![cursor_column] = {char} \cap Glyphs]
  <2>1. {char} \cap Glyphs \in SUBSET (Glyphs \cup {BgWindow})
    OBVIOUS
  <2> QED
    BY <1>3, <2>1 DEF PixelLine
<1>9. PICK pixels \in Picture : pixels = [Display EXCEPT ![cursor_row] = next]
  BY <1>3, <1>5 DEF Picture
<1>10. [Display EXCEPT ![cursor_row][cursor_column] = @ \cup ({char} \cap Glyphs)] = pixels
  <2>1. line[cursor_column] \cup ({char} \cap Glyphs) = {char} \cap Glyphs
    BY <1>7
  <2> QED
    BY <1>3, <1>5, <1>6, <1>8, <1>9, <2>1 DEF Picture, PixelLine
<1>11. /\ Display' = pixels /\ frame_buffer' \in Picture /\ window' \in Picture
       /\ ~has_window => frame_buffer = Display /\ frame_buffer' = pixels
  BY <1>1, <1>2, <1>3, <1>10, Written
<1>12. /\ pixels[cursor_row] = next /\ \A r \in RowSet : r # cursor_row => pixels[r] = Display[r]
       /\ next[cursor_column] = {char} \cap Glyphs
       /\ \A c \in ColumnSet : c # cursor_column => next[c] = line[c]
  BY <1>3, <1>5, <1>8, <1>9 DEF Picture, PixelLine
<1>13. PICK string \in Line : string = buffer[cursor_row]
  BY <1>3 DEF ConsoleTypes
<1>14. PICK written \in Line : written = [string EXCEPT ![cursor_column] = char]
  BY <1>4 DEF Line
<1>15. /\ buffer' = [buffer EXCEPT ![cursor_row] = written]
       /\ buffer' \in [RowSet -> Line]
       /\ buffer'[cursor_row] = written /\ \A r \in RowSet : r # cursor_row => buffer'[r] = buffer[r]
  BY <1>1, <1>3, <1>13, <1>14 DEF ConsoleTypes
<1>16. /\ written[cursor_column] = char /\ char # Nul
       /\ \A i \in 0..Columns : i # cursor_column => written[i] = string[i]
  BY <1>4, <1>14, ConsoleAssumption DEF Line
<1>17. EmptyFrom(next, cursor_column + 1)
  <2>1. EmptyFrom(line, cursor_column)
    BY <1>6 DEF ConsoleInv
  <2> QED
    BY <1>4, <1>12, <2>1, Sizes DEF EmptyFrom
<1>18. ASSUME ~has_window
       PROVE  /\ \A r \in RowSet : pixels[r] = Drawn(buffer'[r])
              /\ \A i \in 0..Columns : written[i] = Nul <=> i >= cursor_column + 1
  <2>1. line = Drawn(string) /\ \A i \in 0..Columns : string[i] = Nul <=> i >= cursor_column
    BY <1>3, <1>6, <1>11, <1>13, <1>18 DEF ConsoleInv
  <2>2. \A i \in 0..Columns : written[i] = Nul <=> i >= cursor_column + 1
    BY <1>4, <1>16, <2>1
  <2>3. ASSUME NEW c \in ColumnSet PROVE next[c] = Drawn(written)[c]
    <3>1. c \in Nat /\ 0..c \subseteq 0..Columns /\ c \in 0..c
      BY Sizes
    <3>2. CASE c < cursor_column
      <4>1. \A i \in 0..c : string[i] # Nul /\ written[i] = string[i]
        BY <1>4, <1>16, <2>1, <3>1, <3>2
      <4>2. Drawn(written)[c] = {written[c]} \cap Glyphs /\ Drawn(string)[c] = {string[c]} \cap Glyphs
        BY <4>1, DrawnCells
      <4> QED
        BY <1>12, <2>1, <3>1, <3>2, <4>1, <4>2, <1>4
    <3>3. CASE c = cursor_column
      <4>1. \A i \in 0..c : written[i] # Nul
        BY <1>4, <2>2, <3>1, <3>3
      <4> QED
        BY <1>12, <1>16, <3>3, <4>1, DrawnCells
    <3>4. CASE c > cursor_column
      <4>1. written[c] = Nul /\ string[c] = Nul
        BY <1>4, <2>1, <2>2, <3>1, <3>4
      <4>2. Drawn(written)[c] = {} /\ Drawn(string)[c] = {}
        BY <3>1, <4>1, DrawnCells
      <4> QED
        BY <1>4, <1>12, <2>1, <3>4, <4>2
    <3> QED
      BY <1>4, <3>1, <3>2, <3>3, <3>4
  <2>4. next = Drawn(written)
    <3>1. Drawn(written) \in PixelLine
      BY DrawnCells
    <3> QED
      BY <2>3, <3>1 DEF PixelLine
  <2>5. \A r \in RowSet : r # cursor_row => Display[r] = Drawn(buffer[r])
    BY <1>11, <1>18 DEF ConsoleInv
  <2> QED
    BY <1>12, <1>15, <2>2, <2>4, <2>5
<1>19. \A r \in RowSet : r > cursor_row => r # cursor_row
  BY <1>3, Sizes
<1>20. ConsoleInv'
  <2>1. /\ buffer' \in [RowSet -> Line] /\ cursor_row' \in RowSet /\ cursor_column' \in ColumnSet
        /\ has_window' \in BOOLEAN /\ frame_buffer' \in Picture /\ window' \in Picture
    BY <1>2, <1>3, <1>4, <1>11, <1>15 DEF ConsoleTypes
  <2>2. EmptyFrom(Display'[cursor_row'], cursor_column')
    BY <1>2, <1>11, <1>12, <1>17
  <2>3. \A r \in RowSet : r > cursor_row' => EmptyFrom(Display'[r], 0)
    BY <1>2, <1>11, <1>12, <1>19 DEF ConsoleInv
  <2>4. ~has_window' =>
         /\ \A r \in RowSet : frame_buffer'[r] = Drawn(buffer'[r])
         /\ \A i \in 0..Columns : buffer'[cursor_row'][i] = Nul <=> i >= cursor_column'
         /\ \A r \in RowSet : r > cursor_row' => \A i \in 0..Columns : buffer'[r][i] = Nul
    <3> SUFFICES ASSUME ~has_window
                 PROVE  /\ \A r \in RowSet : frame_buffer'[r] = Drawn(buffer'[r])
                        /\ \A i \in 0..Columns : written[i] = Nul <=> i >= cursor_column + 1
                        /\ \A r \in RowSet : r > cursor_row => \A i \in 0..Columns : buffer'[r][i] = Nul
      BY <1>2, <1>15
    <3>1. \A r \in RowSet : r > cursor_row => \A i \in 0..Columns : buffer'[r][i] = Nul
      BY <1>15, <1>19 DEF ConsoleInv
    <3> QED
      BY <1>11, <1>18, <3>1
  <2> QED
    BY <2>1, <2>2, <2>3, <2>4 DEF ConsoleInv
<1>21. T!Show(char)
  <2>1. [Display EXCEPT ![cursor_row][cursor_column] = {char} \cap Glyphs] = pixels
    BY <1>3, <1>5, <1>6, <1>8, <1>9 DEF Picture
  <2> QED
    BY <1>2, <1>11, <2>1 DEF T!Show
<1> QED
  BY <1>20, <1>21 DEF Step, T!Next

\* What does not fit in the row changes nothing.
LEMMA NothingChanges ==
  ASSUME ConsoleInv, UNCHANGED <<buffer, cursor_row, cursor_column, has_window, frame_buffer, window>>
  PROVE  ConsoleInv' /\ Step
<1>1. Display' = Display
  BY DEF Display
<1>2. ConsoleInv'
  BY <1>1 DEF ConsoleInv
<1> QED
  BY <1>1, <1>2 DEF Step

\* The end of PutString does not touch the window, nor the screen without one.
LEMMA FinishStringKeeps == ASSUME ConsoleInv, FinishString PROVE ConsoleInv' /\ Step
<1>1. /\ UNCHANGED <<buffer, cursor_row, cursor_column, has_window, window>>
      /\ frame_buffer' = IF has_window THEN Covered ELSE frame_buffer
  BY DEF FinishString
<1>2. CASE ~has_window
  BY <1>1, <1>2, NothingChanges
<1>3. CASE has_window
  <2>1. Display' = Display /\ frame_buffer' \in Picture
    BY <1>1, <1>3, BlankIsPicture DEF Display
  <2>2. ConsoleInv'
    BY <1>1, <1>3, <2>1 DEF ConsoleInv
  <2> QED
    BY <1>1, <2>1, <2>2 DEF Step
<1> QED
  BY <1>2, <1>3

\* The window is drawn from the buffer, and shows what the screen has shown.
LEMMA SetWindowKeeps == ASSUME ConsoleInv, SetWindow PROVE ConsoleInv' /\ Step
<1>1. /\ ~has_window /\ has_window' = TRUE /\ UNCHANGED <<buffer, cursor_row, cursor_column>>
      /\ window' = [r \in RowSet |-> Drawn(buffer[r])] /\ frame_buffer' = Covered
      /\ frame_buffer \in Picture
  BY DEF SetWindow, ConsoleInv
<1>2. \A r \in RowSet : frame_buffer[r] = window'[r]
  BY <1>1 DEF ConsoleInv
<1>3. frame_buffer = window'
  BY <1>1, <1>2 DEF Picture
<1>4. Display' = Display
  BY <1>1, <1>3 DEF Display
<1>5. ConsoleInv'
  <2>1. frame_buffer' \in Picture /\ window' \in Picture
    BY <1>1, <1>3, BlankIsPicture
  <2> QED
    BY <1>1, <1>4, <2>1 DEF ConsoleInv
<1> QED
  BY <1>1, <1>4, <1>5 DEF Step

\* Both ways of scrolling leave the rows with what the next ones had.
LEMMA ScrollMovesUp ==
  ASSUME ConsoleInv, Scroll, has_window' = has_window
  PROVE  /\ Display' \in Picture /\ Display \in Picture
         /\ frame_buffer' \in Picture /\ window' \in Picture
         /\ buffer' \in [RowSet -> Line]
         /\ \A r \in RowSet : r < Rows - 1 => Display'[r] = Display[r + 1]
         /\ Display'[Rows - 1] = [c \in ColumnSet |-> {}]
         /\ ~has_window => /\ \A r \in RowSet : frame_buffer'[r] = Drawn(buffer'[r])
                           /\ buffer'[Rows - 1] = EmptyRow
<1>1. ConsoleTypes
  BY DEF ConsoleInv, ConsoleTypes
<1>2. Display \in Picture
  BY <1>1 DEF ConsoleTypes, Display
<1>3. CASE has_window
  <2>1. PICK moved \in Picture : /\ moved = Move(window, 0, 1, Rows - 1)
                                 /\ \A r \in RowSet : r < Rows - 1 => moved[r] = window[r + 1]
    BY <1>1, MovedUp DEF ConsoleTypes
  <2>2. PICK pixels \in Picture : pixels = [moved EXCEPT ![Rows - 1] = [c \in ColumnSet |-> {}]]
    BY BlankIsPicture DEF Picture
  <2>3. Write(pixels) /\ buffer' = buffer
    BY <1>3, <2>1, <2>2 DEF Scroll
  <2>4. /\ pixels[Rows - 1] = [c \in ColumnSet |-> {}]
        /\ \A r \in RowSet : r < Rows - 1 => pixels[r] = window[r + 1]
    BY <2>1, <2>2, Sizes DEF Picture
  <2>5. Display = window /\ Display' = pixels /\ frame_buffer' \in Picture /\ window' \in Picture
    BY <1>1, <1>3, <2>3, Written DEF Display
  <2> QED
    BY <1>1, <1>2, <1>3, <2>3, <2>4, <2>5 DEF ConsoleTypes
<1>4. CASE ~has_window
  <2>1. PICK text \in [RowSet -> Line] :
          text = [r \in RowSet |-> IF r < Rows - 1 THEN buffer[r + 1] ELSE EmptyRow]
    <3>1. \A r \in RowSet : (IF r < Rows - 1 THEN buffer[r + 1] ELSE EmptyRow) \in Line
      BY <1>1, Sizes, BlankIsPicture DEF ConsoleTypes
    <3> QED
      BY <3>1
  <2>2. PICK pixels : pixels = [r \in RowSet |-> IF r < Rows - 1 THEN Drawn(text[r])
                                                 ELSE [c \in ColumnSet |-> {}]]
    OBVIOUS
  <2>3. buffer' = text /\ Write(pixels)
    BY <1>4, <2>1, <2>2 DEF Scroll
  <2>4. Rows - 1 \in RowSet /\ ~(Rows - 1 < Rows - 1) /\ \A r \in RowSet : r < Rows - 1 \/ r = Rows - 1
    BY Sizes
  <2>5. text[Rows - 1] = EmptyRow /\ \A r \in RowSet : r < Rows - 1 => text[r] = buffer[r + 1]
    BY <2>1, <2>4
  <2>6. \A r \in RowSet : pixels[r] = Drawn(text[r])
    BY <2>2, <2>4, <2>5, BlankIsPicture
  <2>7. \A r \in RowSet : pixels[r] \in PixelLine
    BY <2>6, DrawnCells
  <2>8. pixels \in Picture
    BY <2>2, <2>7 DEF Picture
  <2>9. /\ Display' = pixels /\ frame_buffer' = pixels /\ frame_buffer = Display
        /\ window' \in Picture
    BY <1>1, <1>4, <2>3, <2>8, Written
  <2>10. \A r \in RowSet : r < Rows - 1 => pixels[r] = Display[r + 1]
    <3> SUFFICES ASSUME NEW r \in RowSet, r < Rows - 1 PROVE pixels[r] = Display[r + 1]
      OBVIOUS
    <3>1. r + 1 \in RowSet /\ pixels[r] = Drawn(buffer[r + 1])
      BY <2>5, <2>6, Sizes
    <3> QED
      BY <1>4, <2>9, <3>1 DEF ConsoleInv
  <2>11. pixels[Rows - 1] = [c \in ColumnSet |-> {}]
    BY <2>4, <2>5, <2>6, BlankIsPicture
  <2> QED
    BY <1>2, <2>3, <2>5, <2>6, <2>8, <2>9, <2>10, <2>11
<1> QED
  BY <1>3, <1>4

\* The cursor goes to the next row, or the rows to the one before.
LEMMA NewlineKeeps == ASSUME ConsoleInv, Newline PROVE ConsoleInv' /\ Step
<1>1. /\ cursor_column' = 0 /\ has_window' = has_window
      /\ cursor_row \in RowSet /\ cursor_row \in Nat /\ Rows \in Nat
      /\ has_window \in BOOLEAN
  BY Sizes DEF Newline, ConsoleInv
<1>2. \A line : EmptyFrom(line, 0) => \A column \in Nat : EmptyFrom(line, column)
  BY Sizes DEF EmptyFrom
<1>3. CASE cursor_row < Rows - 1
  <2>1. /\ cursor_row' = cursor_row + 1 /\ UNCHANGED <<buffer, frame_buffer, window>>
        /\ Display' = Display
    BY <1>1, <1>3 DEF Newline, Display
  <2>2. /\ cursor_row + 1 \in RowSet /\ cursor_row + 1 > cursor_row
        /\ \A r \in RowSet : r > cursor_row + 1 => r > cursor_row
    BY <1>1, <1>3, Sizes
  <2>3. /\ EmptyFrom(Display[cursor_row + 1], 0)
        /\ \A r \in RowSet : r > cursor_row + 1 => EmptyFrom(Display[r], 0)
    BY <2>2 DEF ConsoleInv
  <2>4. ~has_window =>
          /\ \A r \in RowSet : frame_buffer[r] = Drawn(buffer[r])
          /\ \A i \in 0..Columns : buffer[cursor_row + 1][i] = Nul /\ i >= 0
          /\ \A r \in RowSet : r > cursor_row + 1 => \A i \in 0..Columns : buffer[r][i] = Nul
    BY <2>2 DEF ConsoleInv
  <2>5. ConsoleInv'
    <3>1. /\ buffer' \in [RowSet -> Line] /\ cursor_row' \in RowSet /\ cursor_column' \in ColumnSet
          /\ has_window' \in BOOLEAN /\ frame_buffer' \in Picture /\ window' \in Picture
      BY <1>1, <2>1, <2>2, Sizes DEF ConsoleInv
    <3> QED
      BY <1>1, <2>1, <2>3, <2>4, <3>1 DEF ConsoleInv
  <2>6. T!NextLine
    BY <1>1, <1>3, <2>1 DEF T!NextLine
  <2> QED
    BY <2>5, <2>6 DEF Step, T!Next
<1>4. CASE ~(cursor_row < Rows - 1)
  <2>1. cursor_row' = cursor_row /\ cursor_row = Rows - 1 /\ Scroll
    BY <1>1, <1>4, Sizes DEF Newline
  <2>2. /\ Display' \in Picture /\ Display \in Picture
        /\ frame_buffer' \in Picture /\ window' \in Picture
        /\ buffer' \in [RowSet -> Line]
        /\ \A r \in RowSet : r < Rows - 1 => Display'[r] = Display[r + 1]
        /\ Display'[Rows - 1] = [c \in ColumnSet |-> {}]
        /\ ~has_window => /\ \A r \in RowSet : frame_buffer'[r] = Drawn(buffer'[r])
                          /\ buffer'[Rows - 1] = EmptyRow
    BY <1>1, <2>1, ScrollMovesUp
  <2>3. \A r \in RowSet : ~(r > Rows - 1) /\ (r < Rows - 1 \/ r = Rows - 1)
    BY Sizes
  <2>4. EmptyFrom([c \in ColumnSet |-> {}], 0)
    BY DEF EmptyFrom
  <2>5. \A i \in 0..Columns : EmptyRow[i] = Nul /\ i >= 0
    BY DEF EmptyRow
  <2>6. ConsoleInv'
    <3>1. /\ cursor_row' \in RowSet /\ cursor_column' \in ColumnSet /\ has_window' \in BOOLEAN
      BY <1>1, <2>1, Sizes
    <3>2. EmptyFrom(Display'[cursor_row'], cursor_column')
      BY <1>1, <2>1, <2>2, <2>4
    <3>3. \A r \in RowSet : r > cursor_row' => EmptyFrom(Display'[r], 0)
      BY <2>1, <2>3
    <3>4. ~has_window' =>
            /\ \A r \in RowSet : frame_buffer'[r] = Drawn(buffer'[r])
            /\ \A i \in 0..Columns : buffer'[cursor_row'][i] = Nul <=> i >= cursor_column'
            /\ \A r \in RowSet : r > cursor_row' => \A i \in 0..Columns : buffer'[r][i] = Nul
      BY <1>1, <2>1, <2>2, <2>3, <2>5
    <3> QED
      BY <2>2, <3>1, <3>2, <3>3, <3>4 DEF ConsoleInv
  <2>7. T!NextLine
    <3>1. PICK up : up = [r \in RowSet |-> IF r < Rows - 1 THEN Display[r + 1]
                                           ELSE [c \in ColumnSet |-> {}]]
      OBVIOUS
    <3>2. \A r \in RowSet : Display'[r] = up[r]
      BY <2>2, <2>3, <3>1
    <3>3. Display' = up
      BY <2>2, <3>1, <3>2 DEF Picture
    <3> QED
      BY <1>1, <1>4, <2>1, <3>1, <3>3
      DEF T!NextLine, T!RowSet, T!BlankLine, T!ColumnSet, RowSet, ColumnSet
  <2> QED
    BY <2>6, <2>7 DEF Step, T!Next
<1> QED
  BY <1>3, <1>4

\* Whatever is printed, on the screen and in the window, on one with any number of rows
\* and columns: the console is a terminal. It scrolls by drawing its buffer again, or by
\* moving pixels line by line while the buffer stays behind, and no row has the remains of
\* another; nor is there a difference when the window takes over, in whatever place.
THEOREM ConsoleIsTerminal == ConsoleSpec => ImplementsTerminal
<1>1. ConsoleInit => ConsoleInv /\ T!Init
  BY ConsoleInitially
<1>2. ConsoleInv /\ [ConsoleNext]_console_vars => ConsoleInv' /\ Step
  <2> SUFFICES ASSUME ConsoleInv, [ConsoleNext]_console_vars PROVE ConsoleInv' /\ Step
    OBVIOUS
  <2>1. CASE DropChar \/ UNCHANGED console_vars
    BY <2>1, NothingChanges DEF DropChar, console_vars
  <2> QED
    BY <2>1, PutCharKeeps, NewlineKeeps, FinishStringKeeps, SetWindowKeeps DEF ConsoleNext
<1>3. Step => [T!Next]_<<Display, cursor_row, cursor_column>>
  BY DEF Step
<1> QED
  BY <1>1, <1>2, <1>3, PTL DEF ConsoleSpec, ImplementsTerminal, T!Spec

=============================================================================
