---- MODULE MCPlanner ----
(* The gateway of planner_test.go for TLC: users, their orders and the     *)
(* products in three subgraphs, with a buyer that leads back to users and  *)
(* a favorite, so that one object belongs to all three.                    *)
EXTENDS Planner

QueryOwner == [user |-> "users", users |-> "users", order |-> "orders", product |-> "products"]
UserOwner == [id |-> "users", name |-> "users", orders |-> "orders", favorite |-> "products"]
OrderOwner == [id |-> "orders", quantity |-> "orders", buyer |-> "orders",
               product |-> "products", discount |-> "users"]
ProductOwner == [name |-> "products", orders |-> "orders"]
ShopOwner == [Query |-> QueryOwner, User |-> UserOwner,
              Order |-> OrderOwner, Product |-> ProductOwner]

\* discount needs a code that no order carries; orders has no entity Product.
ShopKeys == [users |-> [User |-> {"id"}, Order |-> {"code"}],
             orders |-> [User |-> {"id"}],
             products |-> [User |-> {"id"}, Order |-> {"id"}]]
ShopHas == [users |-> [User |-> {"id"}],
            orders |-> [User |-> {"id"}, Order |-> {"id"}],
            products |-> [Order |-> {"id"}, Product |-> {}]]
ShopBatched == {<<"orders", "User">>, <<"products", "Order">>}

Node(parent, field, type, list) ==
  [parent |-> parent, field |-> field, key |-> field, type |-> type, list |-> list, skip |-> FALSE]

\* The fields of an operation with their places: the first of the same path.
Placed(o) ==
  LET path[n \in 0..Len(o)] == IF n = 0 THEN << >> ELSE Append(path[o[n].parent], o[n].key)
      first(n) == CHOOSE m \in 1..n : /\ path[m] = path[n]
                                      /\ \A k \in 1..(m - 1) : path[k] # path[n]
      fields == {"parent", "field", "key", "type", "list", "skip", "place"}
  IN  [n \in 1..Len(o) |-> [x \in fields |-> IF x = "place" THEN first(n) ELSE o[n][x]]]

Leaf(parent, field) == Node(parent, field, "Scalar", FALSE)
As(key, node) == [node EXCEPT !.key = key]
Skip(node) == [node EXCEPT !.skip = TRUE]

\* { users { n: name orders { product { name } } } }
Nested == <<Node(0, "users", "User", TRUE), As("n", Leaf(1, "name")),
            Node(1, "orders", "Order", TRUE), Node(3, "product", "Product", FALSE),
            Leaf(4, "name")>>
\* { product { name } user { orders { product { name } id } favorite { name } id }
\*   again: product { name } }
Forks == <<Node(0, "product", "Product", FALSE), Leaf(1, "name"),
           Node(0, "user", "User", FALSE), Node(3, "orders", "Order", TRUE),
           Node(4, "product", "Product", FALSE), Leaf(5, "name"), Leaf(4, "id"),
           Node(3, "favorite", "Product", FALSE), Leaf(8, "name"), Leaf(3, "id"),
           As("again", Node(0, "product", "Product", FALSE)), Leaf(11, "name")>>
\* { order { quantity @skip(if: true) buyer { name id favorite { name } orders { quantity } } } }
Returns == <<Node(0, "order", "Order", FALSE), Skip(Leaf(1, "quantity")),
             Node(1, "buyer", "User", FALSE), Leaf(3, "name"), Leaf(3, "id"),
             Node(3, "favorite", "Product", FALSE), Leaf(6, "name"),
             Node(3, "orders", "Order", TRUE), Leaf(8, "quantity")>>
\* { product { orders { id } } } and { order { buyer { name } discount } }
NoEntity == <<Node(0, "product", "Product", FALSE), Node(1, "orders", "Order", TRUE),
              Leaf(2, "id")>>
NoKey == <<Node(0, "order", "Order", FALSE), Node(1, "buyer", "User", FALSE), Leaf(2, "name"),
           Leaf(1, "discount")>>

\* { user { id name } user { id name orders { id } } user @skip(if: true) { favorite { name } } }
Merges == <<Node(0, "user", "User", FALSE), Leaf(1, "id"), Leaf(1, "name"),
            Node(0, "user", "User", FALSE), Leaf(4, "name"), Node(4, "orders", "Order", TRUE),
            Leaf(6, "id"),
            Skip(Node(0, "user", "User", FALSE)), Node(8, "favorite", "Product", FALSE),
            Leaf(9, "name")>>
\* { user { orders { id product { name } } } user @skip(if: true) { id orders { quantity } } }
Replaced == <<Node(0, "user", "User", FALSE), Node(1, "orders", "Order", TRUE), Leaf(2, "id"),
              Node(2, "product", "Product", FALSE), Leaf(4, "name"),
              Skip(Node(0, "user", "User", FALSE)), Leaf(6, "id"),
              Node(6, "orders", "Order", TRUE), Leaf(8, "quantity")>>
\* { user { orders { id } } user { orders { quantity quantity } } }
Repeats == <<Node(0, "user", "User", FALSE), Node(1, "orders", "Order", TRUE), Leaf(2, "id"),
             Node(0, "user", "User", FALSE), Node(4, "orders", "Order", TRUE),
             Leaf(5, "quantity"), Leaf(5, "quantity")>>

PlainShop == {Placed(o) : o \in {Nested, Forks, Returns, NoEntity, NoKey}}
RepeatingShop == {Placed(o) : o \in {Merges, Replaced, Repeats}}
Shop == PlainShop \cup RepeatingShop
====
