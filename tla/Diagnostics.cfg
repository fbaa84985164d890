SPECIFICATION Spec
CONSTANTS
  note = note
  remark = remark
  nowhere = nowhere
  NoNode = nowhere
  NoValue = NoValue
  Annotations = {note, remark}
  Nodes <- MCNodes
  Anchor <- MCAnchor
  Drawable <- MCDrawable
  Debated = {1}
  MaxEdges = 4
  Starts <- MCStarts
  MaxHidden = 1
INVARIANTS
  CirclesAreFound
  ReadingsAreRight
  ScreenShowsTheGraph

  
